---- MODULE Spec2Model ----
(***************************************************************************)
(* Model of the parking Allocation Engine (ParkingService), the per-flight *)
(* pipeline of the Sync Orchestrator (FlightOrchestrator), the parking     *)
(* endpoints and the release job of the Job Scheduler, over the spot /     *)
(* flight / allocation / notification tables.                              *)
(*                                                                         *)
(* Conventions                                                             *)
(*  - datetimes are integer seconds on one clock (now); minutes are        *)
(*    obtained as Python does, int(seconds / 60), truncating toward zero;  *)
(*  - a nullable column holding NULL / Python None is NULL;                *)
(*  - a datetime is naive or aware as the call that made it decides, and   *)
(*    subtracting one kind from the other raises TypeError;                *)
(*  - conflict probabilities are in percent (50 stands for 0.5);           *)
(*  - every repository call commits, so an operation that raises keeps     *)
(*    the writes made before the raise;                                    *)
(*  - logging calls are not modelled.                                      *)
(***************************************************************************)
EXTENDS Integers, Sequences, FiniteSets, TLC

\* ---------------------------------------------------------------------------
\* Bounds of the model
\* ---------------------------------------------------------------------------
NumFlights == 2

MaxAllocations == 4

MaxTicks == 1

MaxDepartures == 1

\* the longest batch whose results are counted under SpecPipelineResult
MaxPipelines == 4

\* the minutes of scheduler time that are explored
MaxMinutes == 6

\* the ticks of cache time that are explored, and the seconds of one
MaxCacheTicks == 2

CacheTickSeconds == 150

\* the most state vectors one call of sync_realtime_positions parses
MaxStateVectors == 3

\* a max_delay small enough for the delays of a decorated call to reach it
SmallMaxDelay == 3

\* ---------------------------------------------------------------------------
\* Program constants
\* ---------------------------------------------------------------------------
NULL == -1

TickSeconds == 90

DefaultOccupationMinutes == 60

ConflictThresholdPercent == 50

NoSpot == "<none>"

FlightIds == 1..NumFlights

\* occupation predictions (minutes) and conflict data the prediction provider returns
OccupationChoices == {3}

ConflictChoices == {0, 50, 100}

\* conflict data of the pipelines that interleave: none predicts a conflict, so each
\* goes for a civil spot
InterleavedConflictChoices == {0}

\* whether get_flight_type finds a fetched flight relevant to the airport
RelevanceChoices == BOOLEAN

\* whether the prediction call of the pipeline returns: in the runs of this
\* model the prediction provider answers
PredictionChoices == {TRUE}

\* parking spots seeded by the migrations (a subset: a jetway and a remote civil
\* spot of medium capacity, a medium and a small military spot)
SeedSpots ==
    [ P3 |-> [spot_type |-> "civil", status |-> "available", aircraft_size_capacity |-> "medium",
              has_jetway |-> TRUE, distance_to_terminal |-> 70],
      S1 |-> [spot_type |-> "civil", status |-> "available", aircraft_size_capacity |-> "medium",
              has_jetway |-> FALSE, distance_to_terminal |-> 200],
      M3 |-> [spot_type |-> "military", status |-> "available", aircraft_size_capacity |-> "medium",
              has_jetway |-> FALSE, distance_to_terminal |-> 440],
      M5 |-> [spot_type |-> "military", status |-> "available", aircraft_size_capacity |-> "small",
              has_jetway |-> FALSE, distance_to_terminal |-> 480] ]


\* the spot tables an admin can set up with POST /parking/spots on the seeded
\* spots: any size capacity and any jetway for each of them
SpotTables ==
    {[s \in DOMAIN SeedSpots |->
          [SeedSpots[s] EXCEPT !.aircraft_size_capacity = capacity[s],
                               !.has_jetway = has_jetway[s]]] :
        capacity \in [DOMAIN SeedSpots -> {"small", "medium", "large"}],
        has_jetway \in [DOMAIN SeedSpots -> BOOLEAN]}

\* methods the repository / service classes define
FlightRepositoryMethods ==
    {"create", "get_by_icao24", "get_active_flights", "list_flights", "update_predictions",
     "update_status", "update_parking_assignment", "get_flights_by_airport", "delete_old_flights",
     "get_by_callsign", "upsert", "update_realtime_position", "get_flights_needing_position_update"}

NotificationServiceMethods ==
    {"create_conflict_notification", "create_saturation_alert", "create_overflow_notification",
     "create_recall_notification", "create_parking_freed_notification", "create_delay_notification"}

\* the attributes a Flight row has that the jobs read (app/models/flight.py)
FlightAttributes ==
    {"icao24", "callsign", "flight_type", "status", "parking_spot_id",
     "predicted_occupation_minutes"}

\* keyword parameters of NotificationService.create_overflow_notification / create_conflict_notification
OverflowNotificationParams == {"flight", "reason", "military_spot"}

ConflictNotificationParams == {"flight", "allocation", "conflict_probability"}

LargeAircraft == {"B747", "B777", "B787", "A330", "A340", "A350", "A380"}

SmallAircraft == {"ATR", "DHC", "CRJ", "E190", "E170"}

\* local names of allocate_spot that are bound on every path reaching the
\* military-overflow branch (line 193): predicted_end_time is assigned only at
\* lines 98 and 148, each inside a branch that returns
LocalsBoundAtMilitaryOverflow ==
    {"flight", "predicted_occupation_minutes", "conflict_data", "aircraft_size", "conflict_detected",
     "conflict_probability", "civil_spots", "transferred", "military_spots", "military_spot"}

\* local names of the endpoint military_transfer that are bound when its branch for
\* a flight without allocation builds predicted_end_time (line 398): the import at
\* line 342 makes datetime and timedelta local names of the whole function, and
\* only the other branch executes it
LocalsBoundAtDirectMilitaryTransfer ==
    {"request", "db", "current_user", "flight_repo", "parking_service", "spot_repo",
     "allocation_repo", "flight", "existing_allocation", "military_spots", "timezone",
     "predicted_minutes"}

\* tzinfo of the datetimes: datetime.utcnow() is naive, datetime.now(timezone.utc) and
\* a value loaded from a DateTime(timezone=True) column are aware
UtcnowIsAware == FALSE

NowUtcIsAware == TRUE

TimezoneColumnIsAware == TRUE

\* FlightOrchestrator._aviationstack_cooldown_seconds: 12 hours
AviationstackCooldownSeconds == 43200
\* _process_flights_batch: batch_size
BatchSize == 10
\* lengths of the list a flight source returns in one cycle: none, one, every
\* aircraft once, and one more than a batch holds
FetchLengths == {0, 1, NumFlights, BatchSize + 1}
\* what the prediction service returns for the flights of a cycle
SyncOccupationMinutes == 3

SyncConflictData == 0

\* settings.SYNC_INTERVAL_MINUTES and the intervals of the recall and the
\* departure monitoring triggers, in minutes
SyncIntervalMinutes == 5

RecallIntervalMinutes == 2

DepartureIntervalMinutes == 3
\* the range PATCH /sync/interval/{minutes} accepts
MinIntervalMinutes == 1

MaxIntervalMinutes == 60
\* the values the endpoint is called with
IntervalChoices == {MinIntervalMinutes - 1, MinIntervalMinutes, MaxIntervalMinutes, MaxIntervalMinutes + 1}
\* the ids of the three scheduled jobs
JobIds == {"flight_sync_job", "civil_recall_job", "departure_monitoring_job"}

\* settings.CACHE_TTL_SECONDS
CacheTtlSeconds == 300

\* the positions a state vector can carry
PositionChoices == {1, 2}
\* the AI models that share the cache (model_name of two of the clients)
ModelNames == {"eta", "occupation"}
\* the fields of a prediction input in the order the schema declares them, and
\* the values they take, as their JSON text
InputFields == <<"type_avion", "vent">>

FieldValues == [type_avion |-> {"A320"}, vent |-> {"10.0", "25.0"}]
\* the predictions a model returns
OutputChoices == {1, 2}

\* ---------------------------------------------------------------------------
\* State
\* ---------------------------------------------------------------------------
VARIABLES now, departures, spots, flights, allocations, notifications, inflight, last, sync, sched, cache, positions, releasing, batching, retry

vars == <<now, departures, spots, flights, allocations, notifications, inflight, last, sync, sched, cache, positions, releasing, batching, retry>>

\* the four tables as one value threaded through the repository calls
Store == [spots |-> spots, flights |-> flights, allocations |-> allocations,
          notifications |-> notifications]

\* ---------------------------------------------------------------------------
\* Pure helpers
\* ---------------------------------------------------------------------------
\* Python int(a / b) for b > 0: truncation toward zero
TruncDiv(a, b) == IF a >= 0 THEN a \div b ELSE -((-a) \div b)

Max(a, b) == IF a >= b THEN a ELSE b

\* a - b on datetimes raises TypeError when one is naive and the other aware
CanSubtract(a_is_aware, b_is_aware) == a_is_aware = b_is_aware

\* variant: the sizes compare as their names do
SizeRank_by_name(size) == CASE size = "large" -> 0 [] size = "medium" -> 1 [] size = "small" -> 2

\* PostgreSQL enum order of aircraftsizecategory: small < medium < large
SizeRank(size) == CASE size = "small" -> 0 [] size = "medium" -> 1 [] size = "large" -> 2

get_aircraft_size(aircraft_type) ==
    IF aircraft_type \in LargeAircraft THEN "large"
    ELSE IF aircraft_type \in SmallAircraft THEN "small"
    ELSE "medium"

\* ORDER BY has_jetway DESC, distance_to_terminal ASC
SpotBefore(sp, a, b) ==
    \/ sp[a].has_jetway /\ ~sp[b].has_jetway
    \/ /\ sp[a].has_jetway = sp[b].has_jetway
       /\ sp[a].distance_to_terminal < sp[b].distance_to_terminal

RECURSIVE OrderSpots(_, _)
OrderSpots(sp, S) ==
    IF S = {} THEN <<>>
    ELSE LET first == CHOOSE a \in S : \A b \in S \ {a} : SpotBefore(sp, a, b)
         IN <<first>> \o OrderSpots(sp, S \ {first})

\* ---------------------------------------------------------------------------
\* Repositories
\* ---------------------------------------------------------------------------
get_available_by_type(st, spot_type, aircraft_size) ==
    OrderSpots(st.spots,
               {s \in DOMAIN st.spots :
                    /\ st.spots[s].spot_type = spot_type
                    /\ st.spots[s].status = "available"
                    /\ SizeRank(st.spots[s].aircraft_size_capacity) >= SizeRank(aircraft_size)})

\* variant: the status write is lost
spot_update_status_lost(st, spot_id, status) == st

spot_update_status(st, spot_id, status) ==
    IF spot_id \in DOMAIN st.spots
    THEN [st EXCEPT !.spots[spot_id].status = status]
    ELSE st

update_parking_assignment(st, icao24, parking_spot_id) ==
    IF st.flights[icao24].status # "none"
    THEN [st EXCEPT !.flights[icao24].parking_spot_id = parking_spot_id]
    ELSE st

\* a create that leaves overflow_to_military at the default of its column
allocation_create_without_overflow(st, flight_icao24, spot_id, predicted_duration_minutes, predicted_end_time, overflow_to_military, overflow_reason, conflict_detected, conflict_probability) ==
    [st EXCEPT !.allocations = Append(@,
        [allocation_id |-> Len(st.allocations) + 1,
         flight_icao24 |-> flight_icao24,
         spot_id |-> spot_id,
         allocated_at |-> now,
         predicted_duration_minutes |-> predicted_duration_minutes,
         predicted_end_time |-> predicted_end_time,
         actual_start_time |-> NULL,
         actual_end_time |-> NULL,
         actual_duration_minutes |-> NULL,
         overflow_to_military |-> FALSE,
         overflow_reason |-> overflow_reason,
         conflict_detected |-> conflict_detected,
         conflict_probability |-> conflict_probability])]

allocation_create(st, flight_icao24, spot_id, predicted_duration_minutes, predicted_end_time, overflow_to_military, overflow_reason, conflict_detected, conflict_probability) ==
    [st EXCEPT !.allocations = Append(@,
        [allocation_id |-> Len(st.allocations) + 1,
         flight_icao24 |-> flight_icao24,
         spot_id |-> spot_id,
         allocated_at |-> now,
         predicted_duration_minutes |-> predicted_duration_minutes,
         predicted_end_time |-> predicted_end_time,
         actual_start_time |-> NULL,
         actual_end_time |-> NULL,
         actual_duration_minutes |-> NULL,
         overflow_to_military |-> overflow_to_military,
         overflow_reason |-> overflow_reason,
         conflict_detected |-> conflict_detected,
         conflict_probability |-> conflict_probability])]

\* variant: the row is closed with the closing time as its start
complete_allocation_started_at_end(st, allocation_id, actual_start_time, actual_end_time, actual_duration_minutes) ==
    IF allocation_id \in DOMAIN st.allocations
    THEN [st EXCEPT !.allocations[allocation_id].actual_start_time = actual_end_time,
                    !.allocations[allocation_id].actual_end_time = actual_end_time,
                    !.allocations[allocation_id].actual_duration_minutes = actual_duration_minutes]
    ELSE st

complete_allocation(st, allocation_id, actual_start_time, actual_end_time, actual_duration_minutes) ==
    IF allocation_id \in DOMAIN st.allocations
    THEN [st EXCEPT !.allocations[allocation_id].actual_start_time = actual_start_time,
                    !.allocations[allocation_id].actual_end_time = actual_end_time,
                    !.allocations[allocation_id].actual_duration_minutes = actual_duration_minutes]
    ELSE st

\* ids of the rows with actual_end_time IS NULL, in row order
get_active_allocations(st) ==
    SelectSeq([i \in DOMAIN st.allocations |-> i],
              LAMBDA i : st.allocations[i].actual_end_time = NULL)

\* ids of the active rows of one flight (get_by_flight takes scalar_one_or_none of them)
ActiveOfFlight(st, icao24) ==
    {i \in DOMAIN st.allocations :
        /\ st.allocations[i].flight_icao24 = icao24
        /\ st.allocations[i].actual_end_time = NULL}

notification_create(st, flight_icao24, notification_type) ==
    [st EXCEPT !.notifications = Append(@,
        [flight_icao24 |-> flight_icao24, notification_type |-> notification_type])]

\* ---------------------------------------------------------------------------
\* NotificationService
\* ---------------------------------------------------------------------------
\* a call returns the store and the exception it raised ("none" when it returned)
Outcome(st, raised) == [st |-> st, raised |-> raised]

\* called with the keyword arguments kwargs
create_overflow_notification(st, kwargs, flight_icao24) ==
    IF kwargs # OverflowNotificationParams
    THEN Outcome(st, "TypeError")
    ELSE Outcome(notification_create(st, flight_icao24, "overflow"), "none")

create_conflict_notification(st, kwargs, flight_icao24) ==
    IF kwargs # ConflictNotificationParams
    THEN Outcome(st, "TypeError")
    ELSE Outcome(notification_create(st, flight_icao24, "conflit"), "none")

create_recall_notification(st, flight_icao24) ==
    Outcome(notification_create(st, flight_icao24, "rappel"), "none")

\* flights = await flight_repo.list(skip=0, limit=1); the alert is attached to
\* the most recent flight, and skipped when there is none
create_saturation_alert(st) ==
    IF "list" \notin FlightRepositoryMethods
    THEN Outcome(st, "AttributeError")
    ELSE LET known == {f \in FlightIds : st.flights[f].status # "none"}
         IN IF known = {}
            THEN Outcome(st, "none")
            ELSE Outcome(notification_create(st, CHOOSE f \in known : TRUE, "saturation"), "none")

\* ---------------------------------------------------------------------------
\* ParkingService
\* ---------------------------------------------------------------------------
\* max(civil_allocations, key=predicted_end_time): the first maximal row
LatestAllocation(st, ids) ==
    LET maximal == {i \in 1..Len(ids) :
                      \A j \in 1..Len(ids) :
                          st.allocations[ids[j]].predicted_end_time
                              <= st.allocations[ids[i]].predicted_end_time}
        first == CHOOSE i \in maximal : \A j \in maximal : i <= j
    IN st.allocations[ids[first]]

\* returns [st, raised, transferred]
TransferOutcome(st, raised, transferred) ==
    [st |-> st, raised |-> raised, transferred |-> transferred]

\* _transfer_late_departure_to_military from its call of complete_allocation on:
\* the writes that move the flight of latest_allocation to military_spot
complete_and_move_to_military(st, latest_allocation, military_spot) ==
    LET late_flight == latest_allocation.flight_icao24
        current_spot == latest_allocation.spot_id
        duration == TruncDiv(now - latest_allocation.allocated_at, 60)
        st1 == complete_allocation(st, latest_allocation.allocation_id,
                                   latest_allocation.allocated_at, now, duration)
        st2 == spot_update_status(st1, current_spot, "available")
        remaining_minutes == TruncDiv(latest_allocation.predicted_end_time - now, 60)
        st3 == allocation_create(st2, late_flight, military_spot, remaining_minutes,
                                 latest_allocation.predicted_end_time, TRUE,
                                 "Transferred to free civil spot for earlier departure",
                                 FALSE, NULL)
        st4 == spot_update_status(st3, military_spot, "occupied")
        st5 == update_parking_assignment(st4, late_flight, military_spot)
        notified == create_overflow_notification(
                        st5, {"flight", "reason", "military_spot"}, late_flight)
    IN TransferOutcome(notified.st, notified.raised, notified.raised = "none")

\* a transfer that closes the latest civil allocation and frees its spot before it
\* looks for a military spot
transfer_closing_before_military_check(st, aircraft_size) ==
    LET military_spots == get_available_by_type(st, "military", aircraft_size)
        civil_allocations == SelectSeq(get_active_allocations(st),
                                       LAMBDA i : ~st.allocations[i].overflow_to_military)
    IN IF civil_allocations = <<>> THEN TransferOutcome(st, "none", FALSE)
       ELSE
         LET latest_allocation == LatestAllocation(st, civil_allocations)
             st1 == complete_allocation(st, latest_allocation.allocation_id,
                                        latest_allocation.allocated_at, now, 0)
             st2 == spot_update_status(st1, latest_allocation.spot_id, "available")
         IN IF military_spots = <<>> THEN TransferOutcome(st2, "none", FALSE)
            ELSE IF ~CanSubtract(UtcnowIsAware, TimezoneColumnIsAware)
            THEN TransferOutcome(st, "TypeError", FALSE)
            ELSE complete_and_move_to_military(st, latest_allocation, military_spots[1])

transfer_late_departure_to_military(st, aircraft_size) ==
    LET military_spots == get_available_by_type(st, "military", aircraft_size)
        active_allocations == get_active_allocations(st)
        civil_allocations == SelectSeq(active_allocations,
                                       LAMBDA i : ~st.allocations[i].overflow_to_military)
    IN IF military_spots = <<>> THEN TransferOutcome(st, "none", FALSE)
       ELSE IF civil_allocations = <<>> THEN TransferOutcome(st, "none", FALSE)
       ELSE
         LET latest_allocation == LatestAllocation(st, civil_allocations)
             late_flight == latest_allocation.flight_icao24
             current_spot == latest_allocation.spot_id
         IN IF st.flights[late_flight].status = "none" THEN TransferOutcome(st, "none", FALSE)
            ELSE IF current_spot \notin DOMAIN st.spots THEN TransferOutcome(st, "none", FALSE)
            ELSE IF ~CanSubtract(UtcnowIsAware, TimezoneColumnIsAware)
            THEN TransferOutcome(st, "TypeError", FALSE)
            ELSE complete_and_move_to_military(st, latest_allocation, military_spots[1])

\* the value allocate_spot returns (a ParkingAllocationResult), or the exception it raised
AllocationOutcome(st, raised, success, spot_id, overflow_to_military, reason) ==
    [st |-> st, raised |-> raised, success |-> success, spot_id |-> spot_id,
     overflow_to_military |-> overflow_to_military, reason |-> reason]

Raised(st, exception) == AllocationOutcome(st, exception, FALSE, NoSpot, FALSE, "")

\* conflict_data is NULL for None / an empty dict, else the value of risque_conflit
ConflictProbability(conflict_data) == IF conflict_data = NULL THEN 0 ELSE conflict_data

ConflictDetected(conflict_data) ==
    conflict_data # NULL /\ ConflictProbability(conflict_data) > ConflictThresholdPercent

\* lines 95-131 and 147-170: create the allocation on civil_spots[0]
AllocateCivil(st, icao24, minutes, conflict_data, best_spot, with_notification, reason) ==
    LET predicted_end_time == now + 60 * minutes
        st1 == allocation_create(st, icao24, best_spot, minutes, predicted_end_time, FALSE, "",
                                 ConflictDetected(conflict_data), ConflictProbability(conflict_data))
        st2 == spot_update_status(st1, best_spot, "occupied")
        st3 == update_parking_assignment(st2, icao24, best_spot)
        notified == IF with_notification /\ ConflictDetected(conflict_data)
                    THEN create_conflict_notification(
                             st3, {"flight_icao24", "spot_id", "conflict_probability"}, icao24)
                    ELSE Outcome(st3, "none")
    IN IF notified.raised # "none"
       THEN Raised(notified.st, notified.raised)
       ELSE AllocationOutcome(notified.st, "none", TRUE, best_spot, FALSE, reason)

\* lines 172-237: direct military overflow, else complete saturation
AllocateMilitaryOrSaturate(st, icao24, minutes, conflict_data, aircraft_size) ==
    LET military_spots == get_available_by_type(st, "military", aircraft_size)
    IN IF military_spots # <<>>
       THEN LET military_spot == military_spots[1]
            IN IF "predicted_end_time" \notin LocalsBoundAtMilitaryOverflow
               THEN Raised(st, "UnboundLocalError")
               ELSE
                 LET st1 == allocation_create(st, icao24, military_spot, minutes, now + 60 * minutes,
                                TRUE, "Civil parking full - automatic military overflow",
                                ConflictDetected(conflict_data), ConflictProbability(conflict_data))
                     st2 == spot_update_status(st1, military_spot, "occupied")
                     st3 == update_parking_assignment(st2, icao24, military_spot)
                     notified == create_overflow_notification(
                                     st3, {"flight_icao24", "spot_id", "reason"}, icao24)
                 IN IF notified.raised # "none"
                    THEN Raised(notified.st, notified.raised)
                    ELSE AllocationOutcome(notified.st, "none", TRUE, military_spot, TRUE,
                                           "Allocated to military parking (civil full)")
       ELSE LET alerted == create_saturation_alert(st)
            IN IF alerted.raised # "none"
               THEN Raised(alerted.st, alerted.raised)
               ELSE AllocationOutcome(alerted.st, "none", FALSE, NoSpot, FALSE,
                                      "Complete parking saturation")

\* allocate_spot, given the list civil_spots its first query (line 89) returned
allocate_spot_with(st, icao24, minutes, conflict_data, civil_spots) ==
    LET aircraft_size == get_aircraft_size("A320")
    IN IF civil_spots # <<>> /\ ~ConflictDetected(conflict_data)
       THEN AllocateCivil(st, icao24, minutes, conflict_data, civil_spots[1], TRUE,
                          "Civil spot allocated")
       ELSE
         LET transfer == transfer_late_departure_to_military(st, aircraft_size)
             freed == get_available_by_type(transfer.st, "civil", aircraft_size)
         IN IF transfer.raised # "none" THEN Raised(transfer.st, transfer.raised)
            ELSE IF transfer.transferred /\ freed # <<>>
            THEN AllocateCivil(transfer.st, icao24, minutes, conflict_data, freed[1], FALSE,
                               "Civil spot allocated after smart transfer")
            ELSE AllocateMilitaryOrSaturate(transfer.st, icao24, minutes, conflict_data,
                                            aircraft_size)

allocate_spot(st, icao24, minutes, conflict_data) ==
    allocate_spot_with(st, icao24, minutes, conflict_data,
                       get_available_by_type(st, "civil", get_aircraft_size("A320")))

\* variant: every allocation counts as a military overflow
in_military_overflow_always(allocation) == TRUE

\* line 367: if not current_allocation.overflow_to_military: return False
in_military_overflow(allocation) == allocation.overflow_to_military

\* returns [st, raised, ret]
RecallOutcome(st, raised, ret) == [st |-> st, raised |-> raised, ret |-> ret]

\* the repository calls of recall_from_military that write, in the order of the
\* code; NoFailure when none of them raises
RecallCalls ==
    <<"complete_allocation", "spot_update_status", "allocation_create", "spot_update_status_2",
      "update_parking_assignment">>

NoFailure == 0

\* recall_from_military with a storage error raised by its repository call number
\* failing_call: every repository call commits, so the calls before it are stored,
\* and nothing in recall_from_military catches the exception
recall_from_military_with(st, icao24, civil_spot, failing_call) ==
    LET active == ActiveOfFlight(st, icao24)
    IN IF Cardinality(active) > 1
       THEN RecallOutcome(st, "MultipleResultsFound", FALSE)
       ELSE IF active = {} THEN RecallOutcome(st, "none", FALSE)
       ELSE
         LET current_allocation == st.allocations[CHOOSE i \in active : TRUE]
         IN IF ~in_military_overflow(current_allocation)
            THEN RecallOutcome(st, "none", FALSE)
            ELSE IF ~CanSubtract(NowUtcIsAware, TimezoneColumnIsAware)
            THEN RecallOutcome(st, "TypeError", FALSE)
            ELSE
              LET duration == TruncDiv(now - current_allocation.allocated_at, 60)
                  st1 == complete_allocation(st, current_allocation.allocation_id,
                                             current_allocation.allocated_at, now, duration)
                  st2 == spot_update_status(st1, current_allocation.spot_id, "available")
                  predicted_end_time ==
                      now + 60 * current_allocation.predicted_duration_minutes
                  st3 == allocation_create(st2, icao24, civil_spot,
                                           current_allocation.predicted_duration_minutes,
                                           predicted_end_time, FALSE, "", FALSE, NULL)
                  st4 == spot_update_status(st3, civil_spot, "occupied")
                  st5 == update_parking_assignment(st4, icao24, civil_spot)
                  notified == create_recall_notification(st5, icao24)
                  stored == <<st, st1, st2, st3, st4>>
              IN IF failing_call \in DOMAIN RecallCalls
                 THEN RecallOutcome(stored[failing_call], "SQLAlchemyError", FALSE)
                 ELSE RecallOutcome(notified.st, notified.raised, notified.raised = "none")

recall_from_military(st, icao24, civil_spot) ==
    recall_from_military_with(st, icao24, civil_spot, NoFailure)

\* ---------------------------------------------------------------------------
\* Operations suspended at an await
\* ---------------------------------------------------------------------------
\* what a coroutine working for a flight holds while it is suspended between the
\* query for available civil spots and its writes: the list the query returned
\* and the arguments of the call
Idle == [pc |-> "idle", civil_spots |-> <<>>, minutes |-> NULL, conflict_data |-> NULL]

Suspended(pc, civil_spots, minutes, conflict_data) ==
    [pc |-> pc, civil_spots |-> civil_spots, minutes |-> minutes,
     conflict_data |-> conflict_data]

\* ---------------------------------------------------------------------------
\* Observation of the operation that made the last step
\* ---------------------------------------------------------------------------
NotCalled == [raised |-> "not_called", success |-> FALSE, spot_id |-> NoSpot,
              overflow_to_military |-> FALSE, reason |-> ""]

Returned(outcome) ==
    [raised |-> outcome.raised, success |-> outcome.success, spot_id |-> outcome.spot_id,
     overflow_to_military |-> outcome.overflow_to_military, reason |-> outcome.reason]

Observation(op, icao24, raised, ret, allocate, conflict_data, count) ==
    [op |-> op, flight |-> icao24, raised |-> raised, ret |-> ret, allocate |-> allocate,
     conflict_data |-> conflict_data, count |-> count]

\* the step replaces the tables by those of st and records the observation
CommitTables(st, observation) ==
    /\ spots' = st.spots
    /\ flights' = st.flights
    /\ allocations' = st.allocations
    /\ notifications' = st.notifications
    /\ last' = observation
    /\ Len(st.allocations) <= MaxAllocations
    /\ UNCHANGED <<now, departures, sync, sched, cache, positions, releasing, batching, retry>>

\* a step of an operation that runs from its first line to its last
Commit(st, observation) ==
    /\ CommitTables(st, observation)
    /\ UNCHANGED inflight

\* ---------------------------------------------------------------------------
\* FlightRepository
\* ---------------------------------------------------------------------------
upsert(st, icao24) ==
    IF st.flights[icao24].status # "none"
    THEN st
    ELSE [st EXCEPT !.flights[icao24] =
             [status |-> "scheduled", parking_spot_id |-> NoSpot,
              predicted_occupation_minutes |-> NULL, position |-> NULL]]

update_predictions(st, icao24, predicted_occupation_minutes) ==
    IF st.flights[icao24].status = "none"
    THEN st
    ELSE [st EXCEPT !.flights[icao24].predicted_occupation_minutes =
                        IF predicted_occupation_minutes # NULL
                        THEN predicted_occupation_minutes ELSE @,
                    !.flights[icao24].status = "active"]

flight_update_status(st, icao24, status) ==
    IF st.flights[icao24].status = "none"
    THEN st
    ELSE [st EXCEPT !.flights[icao24].status = status]

\* variant: a state vector of an aircraft without a row creates the row
update_realtime_position_creates(st, icao24, position) ==
    [st EXCEPT !.flights[icao24] =
         [status |-> IF @.status = "none" THEN "scheduled" ELSE @.status,
          parking_spot_id |-> @.parking_spot_id,
          predicted_occupation_minutes |-> @.predicted_occupation_minutes,
          position |-> position]]

\* FlightRepository.update_realtime_position: position stands for the tracking
\* columns (longitude ... last_position_update) written from one state vector
update_realtime_position(st, icao24, position) ==
    IF st.flights[icao24].status = "none"
    THEN st
    ELSE [st EXCEPT !.flights[icao24].position = position]

\* ---------------------------------------------------------------------------
\* Operations
\* ---------------------------------------------------------------------------
\* what process_single_flight leaves and returns: the tables, the returned bool,
\* the exception its handler caught ("none" when none) and what allocate_spot did
PipelineOutcome(st, ret, caught, allocate) ==
    [st |-> st, ret |-> ret, caught |-> caught, allocate |-> allocate]

\* the value process_single_flight returns once allocate_spot has returned its
\* result: the result's success flag only selects the log line
result_after_allocation(success) == TRUE

\* process_single_flight from the return of allocate_spot on: outcome is what
\* allocate_spot raised or returned
finish_pipeline(outcome) ==
    IF outcome.raised # "none"
    THEN PipelineOutcome(outcome.st, FALSE, outcome.raised, Returned(outcome))
    ELSE PipelineOutcome(outcome.st, result_after_allocation(outcome.success), "none",
                         Returned(outcome))

\* FlightOrchestrator.process_single_flight for one fetched flight: relevant is
\* whether get_flight_type finds the flight relevant to the airport, ml_ok
\* whether the prediction call returns, minutes / conflict_data what it returns
process_single_flight(st0, icao24, relevant, ml_ok, minutes, conflict_data) ==
    IF ~relevant
    THEN PipelineOutcome(st0, FALSE, "none", NotCalled)
    ELSE
      LET st1 == upsert(st0, icao24)
      IN IF ~ml_ok
         THEN PipelineOutcome(st1, FALSE, "MLAPIException", NotCalled)
         ELSE
           LET st2 == update_predictions(st1, icao24, minutes)
           IN finish_pipeline(allocate_spot(st2, icao24, minutes, conflict_data))

\* one call of process_single_flight, as a step of its own
ProcessSingleFlight(icao24, relevant, ml_ok, minutes, conflict_data) ==
    LET done == process_single_flight(Store, icao24, relevant, ml_ok, minutes, conflict_data)
    IN Commit(done.st,
              Observation("process_single_flight", icao24, "none", done.ret, done.allocate,
                          IF done.allocate = NotCalled THEN NULL ELSE conflict_data, 0))

\* POST /parking/assign
AssignParking(icao24) ==
    LET st0 == Store
        obs(raised, allocate) ==
            Observation("assign_parking", icao24, raised, FALSE, allocate, NULL, 0)
    IN IF st0.flights[icao24].status = "none"
       THEN Commit(st0, obs("HTTPException", NotCalled))
       ELSE
         LET predicted == st0.flights[icao24].predicted_occupation_minutes
             minutes == IF predicted # NULL /\ predicted # 0
                        THEN predicted ELSE DefaultOccupationMinutes
             outcome == allocate_spot(st0, icao24, minutes, NULL)
         IN Commit(outcome.st,
                   obs(IF outcome.raised # "none" THEN outcome.raised
                       ELSE IF ~outcome.success THEN "HTTPException" ELSE "none",
                       Returned(outcome)))

\* POST /parking/civil-recall
CivilRecall(icao24) ==
    LET st0 == Store
        obs(op, raised, ret) == Observation(op, icao24, raised, ret, NotCalled, NULL, 0)
        civil_spots == get_available_by_type(st0, "civil", get_aircraft_size("A320"))
    IN IF st0.flights[icao24].status = "none"
       THEN Commit(st0, obs("civil_recall", "HTTPException", FALSE))
       ELSE IF civil_spots = <<>>
       THEN Commit(st0, obs("civil_recall", "HTTPException", FALSE))
       ELSE
         LET outcome == recall_from_military(st0, icao24, civil_spots[1])
         IN Commit(outcome.st, obs("recall_from_military", outcome.raised, outcome.ret))

\* POST /parking/civil-recall while the storage fails at one repository call of
\* recall_from_military
CivilRecallInterrupted(icao24, failing_call) ==
    LET st0 == Store
        civil_spots == get_available_by_type(st0, "civil", get_aircraft_size("A320"))
    IN /\ st0.flights[icao24].status # "none"
       /\ civil_spots # <<>>
       /\ \E outcome \in {recall_from_military_with(st0, icao24, civil_spots[1], failing_call)} :
             Commit(outcome.st, Observation("recall_from_military", icao24, outcome.raised,
                                            outcome.ret, NotCalled, NULL, failing_call))

\* the writes of _transfer_late_departure_to_military applied to the allocation it
\* selects, for a store whose datetimes it can subtract
PreemptiveTransferWrites ==
    LET military_spots == get_available_by_type(Store, "military", get_aircraft_size("A320"))
        civil_allocations == SelectSeq(get_active_allocations(Store),
                                       LAMBDA i : ~allocations[i].overflow_to_military)
    IN /\ military_spots # <<>>
       /\ civil_allocations # <<>>
       /\ \E latest_allocation \in {LatestAllocation(Store, civil_allocations)} :
          \E outcome \in {complete_and_move_to_military(Store, latest_allocation,
                                                        military_spots[1])} :
             Commit(outcome.st,
                    Observation("transfer_late_departure_to_military",
                                latest_allocation.flight_icao24, outcome.raised,
                                outcome.transferred, NotCalled, NULL, 0))

\* the loop of _civil_recall_job over the overflow allocations its query
\* returned: recalled_count is incremented whenever recall_from_military returns,
\* an exception of recall_from_military is logged and the loop goes on
RECURSIVE recall_overflows(_, _, _)
recall_overflows(st, overflow_allocations, recalled_count) ==
    IF overflow_allocations = <<>>
    THEN [st |-> st, caught |-> "none", recalled_count |-> recalled_count]
    ELSE
      LET icao24 == st.allocations[Head(overflow_allocations)].flight_icao24
          available_civil == get_available_by_type(st, "civil", get_aircraft_size("A320"))
      IN IF st.flights[icao24].status = "none"
         THEN recall_overflows(st, Tail(overflow_allocations), recalled_count)
         ELSE IF "aircraft_type" \notin FlightAttributes
         THEN [st |-> st, caught |-> "AttributeError", recalled_count |-> recalled_count]
         ELSE IF available_civil = <<>>
         THEN recall_overflows(st, Tail(overflow_allocations), recalled_count)
         ELSE CHOOSE done \in
                  {recall_overflows(outcome.st, Tail(overflow_allocations),
                                    IF outcome.raised = "none" THEN recalled_count + 1
                                    ELSE recalled_count) :
                       outcome \in {recall_from_military(st, icao24, available_civil[1])}} : TRUE

\* FlightSyncScheduler._civil_recall_job: the exception that ends the loop is
\* caught and logged by the job
CivilRecallJob ==
    \E done \in {recall_overflows(
                     Store,
                     SelectSeq(get_active_allocations(Store),
                               LAMBDA i : allocations[i].overflow_to_military),
                     0)} :
       Commit(done.st, Observation("civil_recall_job", NULL, done.caught, FALSE, NotCalled,
                                   NULL, done.recalled_count))

\* POST /parking/military-transfer (as an admin)
MilitaryTransfer(icao24) ==
    LET st0 == Store
        obs(raised, ret) ==
            Observation("military_transfer", icao24, raised, ret, NotCalled, NULL, 0)
        active == ActiveOfFlight(st0, icao24)
        military_spots == get_available_by_type(st0, "military", get_aircraft_size("A320"))
    IN IF st0.flights[icao24].status = "none"
       THEN Commit(st0, obs("HTTPException", FALSE))
       ELSE IF Cardinality(active) > 1
       THEN Commit(st0, obs("MultipleResultsFound", FALSE))
       ELSE IF active # {}
       THEN
         LET existing_allocation == st0.allocations[CHOOSE i \in active : TRUE]
         IN IF existing_allocation.overflow_to_military
            THEN Commit(st0, obs("HTTPException", FALSE))
            ELSE IF existing_allocation.spot_id \notin DOMAIN st0.spots
            THEN Commit(st0, obs("HTTPException", FALSE))
            ELSE IF military_spots = <<>>
            THEN Commit(st0, obs("HTTPException", FALSE))
            ELSE IF ~CanSubtract(NowUtcIsAware, TimezoneColumnIsAware)
            THEN Commit(st0, obs("TypeError", FALSE))
            ELSE
              LET duration == TruncDiv(now - existing_allocation.allocated_at, 60)
                  st1 == complete_allocation(st0, existing_allocation.allocation_id,
                                             existing_allocation.allocated_at, now, duration)
                  st2 == spot_update_status(st1, existing_allocation.spot_id, "available")
                  remaining_minutes ==
                      TruncDiv(existing_allocation.predicted_end_time - now, 60)
                  st3 == allocation_create(st2, icao24, military_spots[1],
                                           Max(remaining_minutes, 10),
                                           existing_allocation.predicted_end_time, TRUE,
                                           "Admin manual transfer", FALSE, NULL)
                  st4 == spot_update_status(st3, military_spots[1], "occupied")
                  st5 == update_parking_assignment(st4, icao24, military_spots[1])
              IN Commit(st5, obs("none", TRUE))
       ELSE IF military_spots = <<>>
       THEN Commit(st0, obs("HTTPException", FALSE))
       ELSE IF "datetime" \notin LocalsBoundAtDirectMilitaryTransfer
       THEN Commit(st0, obs("UnboundLocalError", FALSE))
       ELSE
         LET predicted == st0.flights[icao24].predicted_occupation_minutes
             predicted_minutes == IF predicted # NULL /\ predicted # 0
                                  THEN predicted ELSE DefaultOccupationMinutes
             st1 == allocation_create(st0, icao24, military_spots[1], predicted_minutes,
                                      now + 60 * predicted_minutes, TRUE, "Admin decision",
                                      FALSE, NULL)
             st2 == spot_update_status(st1, military_spots[1], "occupied")
             st3 == update_parking_assignment(st2, icao24, military_spots[1])
         IN Commit(st3, obs("none", TRUE))

\* one iteration of the loop of _departure_monitoring_job (lines 215-251):
\* returns the store and whether released_count was incremented
ReleaseOne(st, allocation_id) ==
    LET allocation == st.allocations[allocation_id]
        actual_duration == TruncDiv(now - allocation.allocated_at, 60)
        st1 == complete_allocation(st, allocation_id, allocation.allocated_at, now,
                                   actual_duration)
        st2 == spot_update_status(st1, allocation.spot_id, "available")
        st3 == update_parking_assignment(st2, allocation.flight_icao24, NoSpot)
    IN IF "create_parking_freed" \notin NotificationServiceMethods
       THEN [st |-> st3, released |-> FALSE]
       ELSE [st |-> notification_create(st3, allocation.flight_icao24, "parking_freed"),
             released |-> TRUE]

\* a loop whose handler is outside the for: the first failing turn ends the run
RECURSIVE ReleaseAll_until_failure(_, _, _)
ReleaseAll_until_failure(st, ids, released_count) ==
    IF ids = <<>>
    THEN [st |-> st, released_count |-> released_count]
    ELSE LET one == ReleaseOne(st, Head(ids))
         IN IF one.released
            THEN ReleaseAll_until_failure(one.st, Tail(ids), released_count + 1)
            ELSE [st |-> one.st, released_count |-> released_count]

\* the for loop of _departure_monitoring_job (lines 215-251): a turn that raises
\* is logged by the handler inside the loop and the next turn runs
RECURSIVE ReleaseAll(_, _, _)
ReleaseAll(st, ids, released_count) ==
    IF ids = <<>>
    THEN [st |-> st, released_count |-> released_count]
    ELSE LET one == ReleaseOne(st, Head(ids))
         IN ReleaseAll(one.st, Tail(ids),
                       released_count + (IF one.released THEN 1 ELSE 0))

\* FlightSyncScheduler._departure_monitoring_job
DepartureMonitoringJob ==
    LET st0 == Store
        completed_allocations ==
            SelectSeq(get_active_allocations(st0),
                      LAMBDA i : st0.flights[st0.allocations[i].flight_icao24].status = "completed")
        done == ReleaseAll(st0, completed_allocations, 0)
    IN Commit(done.st,
              Observation("departure_monitoring_job", NULL, "none", FALSE, NotCalled, NULL,
                          done.released_count))

\* the departure monitoring job is not running
NoRelease == [pc |-> "idle", completed_allocations |-> <<>>, released_count |-> 0]

\* _departure_monitoring_job up to the return of its query: the rows it will
\* release are those read here
ReleaseStart ==
    /\ releasing.pc = "idle"
    /\ releasing' =
           [pc |-> "release",
            completed_allocations |->
                SelectSeq(get_active_allocations(Store),
                          LAMBDA i : flights[allocations[i].flight_icao24].status = "completed"),
            released_count |-> 0]
    /\ last' = Observation("completed_allocations", NULL, "none", FALSE, NotCalled, NULL, 0)
    /\ UNCHANGED <<now, departures, spots, flights, allocations, notifications, inflight, sync,
                   sched, cache, positions, batching, retry>>

\* one turn of the loop of _departure_monitoring_job over the rows read by its
\* query; the job ends after the last row
ReleaseNext ==
    /\ releasing.pc = "release"
    /\ IF releasing.completed_allocations = <<>>
       THEN /\ releasing' = NoRelease
            /\ last' = Observation("departure_monitoring_job", NULL, "none", FALSE, NotCalled,
                                   NULL, releasing.released_count)
            /\ UNCHANGED <<now, departures, spots, flights, allocations, notifications,
                           inflight, sync, sched, cache, positions, batching, retry>>
       ELSE \E one \in {ReleaseOne(Store, Head(releasing.completed_allocations))} :
               /\ releasing' =
                      [releasing EXCEPT !.completed_allocations = Tail(@),
                                        !.released_count = @ + (IF one.released THEN 1 ELSE 0)]
               /\ spots' = one.st.spots
               /\ flights' = one.st.flights
               /\ allocations' = one.st.allocations
               /\ notifications' = one.st.notifications
               /\ last' = Observation("release", allocations[Head(releasing.completed_allocations)].flight_icao24,
                                      "none", one.released, NotCalled, NULL, 0)
               /\ UNCHANGED <<now, departures, inflight, sync, sched, cache, positions, batching, retry>>

\* the flight departs: its status becomes completed (FlightRepository.update_status)
FlightCompleted(icao24) ==
    /\ flights[icao24].status \in {"scheduled", "active"}
    /\ departures < MaxDepartures
    /\ departures' = departures + 1
    /\ flights' = flight_update_status(Store, icao24, "completed").flights
    /\ last' = Observation("update_status", icao24, "none", FALSE, NotCalled, NULL, 0)
    /\ UNCHANGED <<now, spots, allocations, notifications, inflight, sync, sched, cache, positions, releasing, batching, retry>>

\* time passes
Tick ==
    /\ now < MaxTicks * TickSeconds
    /\ now' = now + TickSeconds
    /\ last' = Observation("tick", NULL, "none", FALSE, NotCalled, NULL, 0)
    /\ UNCHANGED <<departures, spots, flights, allocations, notifications, inflight, sync, sched, cache, positions, releasing, batching, retry>>

\* ---------------------------------------------------------------------------
\* Sync Orchestrator: one synchronisation cycle
\* ---------------------------------------------------------------------------
\* a FlightOrchestrator as its constructor leaves it
NewOrchestrator == [last_aviationstack_call |-> NULL]

\* the list a flight source returns: n entries over the known aircraft
Fetched(n) == [i \in 1..n |-> ((i - 1) % NumFlights) + 1]

\* FlightOrchestrator._can_use_aviationstack at time t
can_use_aviationstack(orchestrator, t) ==
    IF orchestrator.last_aviationstack_call = NULL
    THEN TRUE
    ELSE t - orchestrator.last_aviationstack_call >= AviationstackCooldownSeconds

\* FlightOrchestrator._fetch_from_aviationstack at time t: the call time is
\* recorded before the request and forgotten again when the request fails
fetch_from_aviationstack(orchestrator, t, secondary_ok, n) ==
    IF secondary_ok
    THEN [orchestrator |-> [orchestrator EXCEPT !.last_aviationstack_call = t],
          raised |-> "none", flights |-> Fetched(n)]
    ELSE [orchestrator |-> [orchestrator EXCEPT !.last_aviationstack_call = NULL],
          raised |-> "Exception", flights |-> <<>>]

\* what one pipeline of a batch left behind, as the batch loop sees it (ret) and
\* as the pipeline ended (caught, allocate)
PipelineResult(icao24, done) ==
    [flight |-> icao24, ret |-> done.ret, caught |-> done.caught, allocate |-> done.allocate]

\* asyncio.gather over the pipelines of one batch; relevant[f] is whether the
\* fetched entry of aircraft f is relevant to the airport
RECURSIVE gather(_, _, _, _)
gather(st, batch, relevant, results) ==
    IF batch = <<>>
    THEN [st |-> st, results |-> results]
    ELSE LET icao24 == Head(batch)
             pipeline == {process_single_flight(st, icao24, relevant[icao24], TRUE,
                                                SyncOccupationMinutes, SyncConflictData)}
         IN CHOOSE gathered \in {gather(done.st, Tail(batch), relevant,
                                        Append(results, PipelineResult(icao24, done))) :
                                     done \in pipeline} : TRUE

\* a counting loop that counts a failure only for an exception among the results
RECURSIVE count_results_exceptions_only(_, _, _)
count_results_exceptions_only(results, successful, failed) ==
    IF results = <<>>
    THEN [successful |-> successful, failed |-> failed]
    ELSE count_results_exceptions_only(Tail(results),
                                       successful + (IF Head(results).ret THEN 1 ELSE 0),
                                       failed)

\* the counting loop over the results of one batch: process_single_flight
\* catches every Exception, so each result is the bool it returned
RECURSIVE count_results(_, _, _)
count_results(results, successful, failed) ==
    IF results = <<>>
    THEN [successful |-> successful, failed |-> failed]
    ELSE IF Head(results).ret
         THEN count_results(Tail(results), successful + 1, failed)
         ELSE count_results(Tail(results), successful, failed + 1)

\* the counters and the results so far, with the results of one more batch
count_into(acc, results) ==
    LET counted == count_results(results, acc.successful, acc.failed)
    IN [successful |-> counted.successful, failed |-> counted.failed,
        results |-> acc.results \o results]

\* the loop of _process_flights_batch from index i on
RECURSIVE process_batches_from(_, _, _, _, _)
process_batches_from(st, flight_list, relevant, i, acc) ==
    IF i > Len(flight_list)
    THEN [st |-> st, successful |-> acc.successful, failed |-> acc.failed,
          results |-> acc.results]
    ELSE LET last_index == IF i + BatchSize - 1 <= Len(flight_list)
                           THEN i + BatchSize - 1 ELSE Len(flight_list)
             batch == {gather(st, SubSeq(flight_list, i, last_index), relevant, <<>>)}
         IN CHOOSE done \in {process_batches_from(gathered.st, flight_list, relevant,
                                                  i + BatchSize,
                                                  count_into(acc, gathered.results)) :
                                 gathered \in batch} : TRUE

NoneCounted == [successful |-> 0, failed |-> 0, results |-> <<>>]

\* a batch loop that stops after its first batch
process_flights_batch_first_batch_only(st, flight_list, relevant) ==
    process_batches_from(st, SubSeq(flight_list, 1, IF Len(flight_list) < BatchSize THEN Len(flight_list) ELSE BatchSize), relevant, 1, NoneCounted)

\* FlightOrchestrator._process_flights_batch
process_flights_batch(st, flight_list, relevant) ==
    process_batches_from(st, flight_list, relevant, 1, NoneCounted)

\* the dictionary sync_flights returns, with what the cycle did
\* variant: the whole list is one batch
last_index_whole_list(i, length) == length

\* flights[i:i + batch_size]: the index of the last entry of the batch that
\* starts at index i of a list of that length
last_index_of_batch(i, length) ==
    IF i + BatchSize - 1 <= length THEN i + BatchSize - 1 ELSE length

\* _process_flights_batch is not running
NoBatch ==
    [pc |-> "idle", flight_list |-> <<>>, i |-> 1, running |-> {}, results |-> <<>>,
     successful |-> 0, failed |-> 0]

\* the state of _process_flights_batch at the await of the gather of the batch
\* that starts at index i, or at its return when the list has no such batch:
\* results[k] is NULL while the pipeline of entry k is in progress
gather_from(batch, i) ==
    IF i > Len(batch.flight_list)
    THEN [batch EXCEPT !.pc = "idle", !.i = i, !.running = {}, !.results = <<>>]
    ELSE [batch EXCEPT !.pc = "gather", !.i = i,
                       !.running = i..last_index_of_batch(i, Len(batch.flight_list)),
                       !.results = [k \in 1..(last_index_of_batch(i, Len(batch.flight_list))
                                                 - i + 1) |-> NULL]]

BatchStep(batch, op) ==
    /\ batching' = batch
    /\ last' = Observation(op, NULL, "none", FALSE, NotCalled, NULL,
                           batch.successful + batch.failed)
    /\ UNCHANGED <<now, departures, spots, flights, allocations, notifications, inflight, sync,
                   sched, cache, positions, releasing, retry>>

\* _process_flights_batch is called with n fetched flights and reaches the await
\* of its first gather
ProcessFlightsBatch(n) ==
    /\ batching.pc = "idle"
    /\ BatchStep(gather_from([NoBatch EXCEPT !.flight_list = Fetched(n)], 1),
                 "process_flights_batch")

\* the pipeline of entry k of the list ends: process_single_flight catches every
\* exception, so what the gather receives from it is the bool ret
PipelineEnds(k, ret) ==
    /\ batching.pc = "gather"
    /\ k \in batching.running
    /\ BatchStep([batching EXCEPT !.running = @ \ {k},
                                  !.results[k - batching.i + 1] = ret],
                 "process_single_flight")

\* the gather returns once every pipeline of the batch has ended; the results are
\* counted and the next batch is gathered, with no await in between
GatherReturns ==
    /\ batching.pc = "gather"
    /\ batching.running = {}
    /\ \E counted \in {count_results([k \in DOMAIN batching.results |->
                                             [ret |-> batching.results[k]]],
                                        batching.successful, batching.failed)} :
          BatchStep(gather_from([batching EXCEPT !.successful = counted.successful,
                                                 !.failed = counted.failed],
                                batching.i + BatchSize),
                    "gather")

Stats(source, error, total_flights, successful, failed) ==
    [source |-> source, error |-> error, total_flights |-> total_flights,
     successful |-> successful, failed |-> failed]

SyncOutcome(st, orchestrator, raised, stats, fetched, results, aviationstack_called) ==
    [st |-> st, orchestrator |-> orchestrator, raised |-> raised, stats |-> stats,
     fetched |-> fetched, results |-> results, aviationstack_called |-> aviationstack_called]

\* sync_flights from "Process flights if we got any" on
process_fetched(st, orchestrator, source, flight_list, relevant, aviationstack_called) ==
    IF flight_list # <<>>
    THEN CHOOSE done \in
             {SyncOutcome(results.st, orchestrator, "none",
                          Stats(source, "none", Len(flight_list), results.successful,
                                results.failed),
                          flight_list, results.results, aviationstack_called) :
                  results \in {process_flights_batch(st, flight_list, relevant)}} : TRUE
    ELSE SyncOutcome(st, orchestrator, "none", Stats(source, "none", 0, 0, 0),
                     flight_list, <<>>, aviationstack_called)

\* a cycle that takes an empty answer of OpenSky for a failure
sync_flights_fallback_on_empty(st, orchestrator, t, primary_ok, secondary_ok, n, relevant) ==
    IF primary_ok /\ n > 0
    THEN process_fetched(st, orchestrator, "OpenSky", Fetched(n), relevant, FALSE)
    ELSE LET fallback == fetch_from_aviationstack(orchestrator, t, secondary_ok, n)
         IN IF fallback.raised # "none"
            THEN SyncOutcome(st, fallback.orchestrator, "none",
                             Stats("none", "OpenSky, AviationStack", 0, 0, 0),
                             <<>>, <<>>, TRUE)
            ELSE process_fetched(st, fallback.orchestrator, "AviationStack",
                                 fallback.flights, relevant, TRUE)

\* FlightOrchestrator.sync_flights at time t: primary_ok is whether the OpenSky
\* request returns (it raises OpenSkyAPIException otherwise), secondary_ok
\* whether the AviationStack request returns, n the length of the fetched list
sync_flights(st, orchestrator, t, primary_ok, secondary_ok, n, relevant) ==
    IF primary_ok
    THEN process_fetched(st, orchestrator, "OpenSky", Fetched(n), relevant, FALSE)
    ELSE IF can_use_aviationstack(orchestrator, t)
         THEN LET fallback == fetch_from_aviationstack(orchestrator, t, secondary_ok, n)
              IN IF fallback.raised # "none"
                 THEN SyncOutcome(st, fallback.orchestrator, "none",
                                  Stats("none", "OpenSky, AviationStack", 0, 0, 0),
                                  <<>>, <<>>, TRUE)
                 ELSE process_fetched(st, fallback.orchestrator, "AviationStack",
                                      fallback.flights, relevant, TRUE)
         ELSE SyncOutcome(st, orchestrator, "none",
                          Stats("OpenSky (failed)", "OpenSky", 0, 0, 0),
                          <<>>, <<>>, FALSE)

\* what is remembered of the synchronisation cycles: the outcome of the last
\* one and the time of the last request to AviationStack (NULL when none yet)
NoSync ==
    [stats |-> Stats("", "none", 0, 0, 0), fetched |-> <<>>, results |-> <<>>,
     aviationstack_called |-> FALSE, aviationstack_called_at |-> NULL]

\* the parsed state vectors of one call: the aircraft and its position, or that
\* the update of its row raises
StateVector ==
    [icao24 : FlightIds, position : PositionChoices, fails : {FALSE}]
        \cup [icao24 : FlightIds, position : {NULL}, fails : {TRUE}]

StateVectors == UNION {[1..n -> StateVector] : n \in 0..MaxStateVectors}

PositionsResult(success, updated_count, total_states, errors) ==
    [success |-> success, updated_count |-> updated_count, total_states |-> total_states,
     errors |-> errors]

\* the loop of sync_realtime_positions from state vector i on
RECURSIVE update_positions_from(_, _, _, _, _)
update_positions_from(st, state_vectors, i, updated_count, error_count) ==
    IF i > Len(state_vectors)
    THEN [st |-> st,
          result |-> PositionsResult(TRUE, updated_count, Len(state_vectors), error_count)]
    ELSE IF state_vectors[i].fails
         THEN update_positions_from(st, state_vectors, i + 1, updated_count, error_count + 1)
         ELSE update_positions_from(
                  update_realtime_position(st, state_vectors[i].icao24,
                                           state_vectors[i].position),
                  state_vectors, i + 1,
                  IF st.flights[state_vectors[i].icao24].status # "none"
                  THEN updated_count + 1 ELSE updated_count,
                  error_count)

\* FlightOrchestrator.sync_realtime_positions: fetch_ok is whether
\* get_states_in_area and parse_state_vectors return
sync_realtime_positions(st, fetch_ok, state_vectors) ==
    IF ~fetch_ok
    THEN [st |-> st, result |-> PositionsResult(FALSE, 0, 0, 1)]
    ELSE IF state_vectors = <<>>
         THEN [st |-> st, result |-> PositionsResult(TRUE, 0, 0, 0)]
         ELSE update_positions_from(st, state_vectors, 1, 0, 0)

\* no call of sync_realtime_positions yet
NoPositions == [state_vectors |-> <<>>, result |-> PositionsResult(TRUE, 0, 0, 0)]

\* one call of sync_realtime_positions
SyncPositions(fetch_ok, state_vectors) ==
    \E done \in {sync_realtime_positions(Store, fetch_ok, state_vectors)} :
       /\ positions' = [state_vectors |-> IF fetch_ok THEN state_vectors ELSE <<>>,
                        result |-> done.result]
       /\ spots' = done.st.spots
       /\ flights' = done.st.flights
       /\ allocations' = done.st.allocations
       /\ notifications' = done.st.notifications
       /\ last' = Observation("sync_realtime_positions", NULL, "none", fetch_ok, NotCalled,
                              NULL, done.result.updated_count)
       /\ UNCHANGED <<now, departures, inflight, sync, sched, cache, releasing, batching, retry>>

\* FlightSyncScheduler._sync_job (trigger_manual_sync runs the same cycle): a
\* FlightOrchestrator is constructed for the run
SyncJob(primary_ok, secondary_ok, n, relevant) ==
    \E done \in {sync_flights(Store, NewOrchestrator, now, primary_ok, secondary_ok, n,
                              relevant)} :
       /\ spots' = done.st.spots
       /\ flights' = done.st.flights
       /\ allocations' = done.st.allocations
       /\ notifications' = done.st.notifications
       /\ Len(done.st.allocations) <= MaxAllocations
       /\ sync' = [stats |-> done.stats, fetched |-> done.fetched, results |-> done.results,
                   aviationstack_called |-> done.aviationstack_called,
                   aviationstack_called_at |->
                       IF done.aviationstack_called THEN now
                       ELSE sync.aviationstack_called_at]
       /\ last' = Observation("sync_job", NULL, done.raised, FALSE, NotCalled, NULL,
                              done.stats.total_flights)
       /\ UNCHANGED <<now, departures, inflight, sched, cache, positions, releasing, batching, retry>>

\* ---------------------------------------------------------------------------
\* Job Scheduler (FlightSyncScheduler over an APScheduler AsyncIOScheduler)
\* ---------------------------------------------------------------------------
\* a FlightSyncScheduler as its constructor leaves it. state is the state of the
\* AsyncIOScheduler, jobs its job store, instances the executor's count of
\* running instances per job id, runs the job coroutines that are executing
\* (each "started", or "writing" once between its first and its last write).
\* has_failed, abandoned, shut_down and job record what happened: a run of the
\* job ended in an error, a run was cancelled while writing, stop() has shut the
\* scheduler down, and the job the last step was about.
NewScheduler ==
    [is_running |-> FALSE, interval_minutes |-> SyncIntervalMinutes, state |-> "stopped",
     jobs |-> <<>>, instances |-> [j \in JobIds |-> 0], runs |-> [j \in JobIds |-> <<>>],
     has_failed |-> [j \in JobIds |-> FALSE], abandoned |-> FALSE, shut_down |-> FALSE,
     job |-> ""]

\* add_job(..., max_instances=2)
max_instances_two(job_id) == 2

\* add_job(..., max_instances=1), the same for the three jobs
max_instances(job_id) == 1

\* the positions in the job store of the jobs with this id
JobIndexes(s, job_id) == {k \in DOMAIN s.jobs : s.jobs[k].id = job_id}

\* IntervalTrigger(minutes=m) armed at time t
IntervalTrigger(job_id, minutes, t) ==
    [id |-> job_id, interval |-> minutes, next_run_time |-> t + minutes * 60]

\* scheduler.add_job(..., id=job_id, replace_existing=True) at time t
add_job(s, job_id, minutes, t) ==
    IF JobIndexes(s, job_id) # {}
    THEN [s EXCEPT !.jobs = [k \in DOMAIN s.jobs |->
                                IF s.jobs[k].id = job_id
                                THEN IntervalTrigger(job_id, minutes, t) ELSE s.jobs[k]]]
    ELSE [s EXCEPT !.jobs = Append(s.jobs, IntervalTrigger(job_id, minutes, t))]

\* AsyncIOScheduler.start()
scheduler_start(s) ==
    IF s.state = "running"
    THEN Outcome(s, "SchedulerAlreadyRunningError")
    ELSE Outcome([s EXCEPT !.state = "running"], "none")

\* a start() that does not look at _is_running
start_guard_never(s) == FALSE

\* start(): the early return
start_guard(s) == s.is_running

\* FlightSyncScheduler.start at time t
start(s, t) ==
    IF start_guard(s)
    THEN Outcome(s, "none")
    ELSE LET s1 == add_job(s, "flight_sync_job", s.interval_minutes, t)
             s2 == add_job(s1, "civil_recall_job", RecallIntervalMinutes, t)
             s3 == add_job(s2, "departure_monitoring_job", DepartureIntervalMinutes, t)
             started == scheduler_start(s3)
         IN IF started.raised # "none"
            THEN started
            ELSE Outcome([started.st EXCEPT !.is_running = TRUE], "none")

\* AsyncIOScheduler.shutdown(wait=True), called from a coroutine on the event
\* loop the job coroutines run on: the call cannot wait for them. cancel is
\* whether the executor cancels the running job coroutines or leaves them
\* executing; a cancelled run stops at the await it is suspended at
scheduler_shutdown(s, cancel) ==
    IF cancel
    THEN [s EXCEPT !.state = "stopped",
                   !.abandoned = s.abandoned \/ \E j \in JobIds : \E k \in DOMAIN s.runs[j] : s.runs[j][k] = "writing",
                   !.runs = [j \in JobIds |-> <<>>],
                   !.instances = [j \in JobIds |-> 0]]
    ELSE [s EXCEPT !.state = "stopped"]

\* FlightSyncScheduler.stop
stop(s, cancel) ==
    IF ~s.is_running
    THEN Outcome(s, "none")
    ELSE Outcome([scheduler_shutdown(s, cancel) EXCEPT !.is_running = FALSE, !.shut_down = TRUE], "none")

\* an endpoint that accepts every interval
interval_accepted_always(minutes) == TRUE

\* PATCH /sync/interval/{minutes}: the range check
interval_accepted(minutes) == ~(minutes < MinIntervalMinutes \/ minutes > MaxIntervalMinutes)

\* scheduler.reschedule_job(job_id, trigger=IntervalTrigger(minutes=...)) at time t
reschedule_job(s, job_id, minutes, t) ==
    [s EXCEPT !.jobs = [k \in DOMAIN s.jobs |->
                           IF s.jobs[k].id = job_id
                           THEN IntervalTrigger(job_id, minutes, t) ELSE s.jobs[k]]]

\* FlightSyncScheduler.update_interval at time t
update_interval(s, new_interval_minutes, t) ==
    IF ~s.is_running
    THEN [s EXCEPT !.interval_minutes = new_interval_minutes]
    ELSE [reschedule_job(s, "flight_sync_job", new_interval_minutes, t)
              EXCEPT !.interval_minutes = new_interval_minutes]

\* update_sync_interval, called by an administrator
update_sync_interval(s, minutes, t) ==
    IF ~interval_accepted(minutes)
    THEN Outcome(s, "HTTPException")
    ELSE Outcome(update_interval(s, minutes, t), "none")

\* the scheduler finds job k due: the executor starts a run unless the job has
\* max_instances runs executing, and the job gets its next fire time either way
submit_job(s, k) ==
    LET job == s.jobs[k]
        rescheduled == [s EXCEPT !.jobs[k].next_run_time = job.next_run_time + job.interval * 60]
    IN IF s.instances[job.id] >= max_instances(job.id)
       THEN Outcome(rescheduled, "MaxInstancesReachedError")
       ELSE Outcome([rescheduled EXCEPT !.instances[job.id] = s.instances[job.id] + 1,
                                        !.runs[job.id] = Append(s.runs[job.id], "started")],
                    "none")

\* a sequence without its k-th element
Without(seq, k) == SubSeq(seq, 1, k - 1) \o SubSeq(seq, k + 1, Len(seq))

\* an executor that releases the instance only of a run that ended without error
run_job_done_leaks_on_error(s, job_id, k, failed) ==
    [s EXCEPT !.runs[job_id] = Without(s.runs[job_id], k),
              !.instances[job_id] = IF failed THEN s.instances[job_id] ELSE s.instances[job_id] - 1,
              !.has_failed[job_id] = s.has_failed[job_id] \/ failed]

\* run k of the job ends. failed is whether its body raised: the job function
\* catches the exception and returns, and the executor releases the instance
run_job_done(s, job_id, k, failed) ==
    [s EXCEPT !.runs[job_id] = Without(s.runs[job_id], k),
              !.instances[job_id] = s.instances[job_id] - 1,
              !.has_failed[job_id] = s.has_failed[job_id] \/ failed]

\* a step of the scheduler: the tables are not touched; count is the argument
\* of the call where it has one
SchedulerStep(s, op, job_id, raised, count) ==
    /\ sched' = [s EXCEPT !.job = job_id]
    /\ last' = Observation(op, NULL, raised, FALSE, NotCalled, NULL, count)
    /\ UNCHANGED <<departures, spots, flights, allocations, notifications, inflight, sync, cache, positions, releasing, batching, retry>>

\* the application calls start() at startup; it is not called again after stop()
Start ==
    /\ ~sched.shut_down
    /\ LET done == start(sched, now)
       IN SchedulerStep(done.st, "start", "", done.raised, 0)
    /\ UNCHANGED now

Stop(cancel) ==
    /\ LET done == stop(sched, cancel)
       IN SchedulerStep(done.st, "stop", "", done.raised, 0)
    /\ UNCHANGED now

UpdateSyncInterval(minutes) ==
    /\ LET done == update_sync_interval(sched, minutes, now)
       IN SchedulerStep(done.st, "update_sync_interval", "", done.raised, minutes)
    /\ UNCHANGED now

\* the tick of a trigger: the job is due
Fire(k) ==
    /\ sched.state = "running"
    /\ k \in DOMAIN sched.jobs
    /\ sched.jobs[k].next_run_time <= now
    /\ LET done == submit_job(sched, k)
       IN SchedulerStep(done.st, "tick", sched.jobs[k].id, done.raised, 0)
    /\ UNCHANGED now

\* run k of the job makes its first write
RunWrites(job_id, k) ==
    /\ k \in DOMAIN sched.runs[job_id]
    /\ sched.runs[job_id][k] = "started"
    /\ SchedulerStep([sched EXCEPT !.runs[job_id][k] = "writing"], "run_writes", job_id, "none", 0)
    /\ UNCHANGED now

\* run k of the job ends, with or without an error caught at the job boundary
RunEnds(job_id, k, failed) ==
    /\ k \in DOMAIN sched.runs[job_id]
    /\ SchedulerStep(run_job_done(sched, job_id, k, failed),
                     IF failed THEN "run_fails" ELSE "run_ends", job_id, "none", 0)
    /\ UNCHANGED now

\* a minute passes; the scheduler wakes up for every job at its fire time
MinutePasses ==
    /\ now < MaxMinutes * 60
    /\ sched.state = "running" => \A k \in DOMAIN sched.jobs : sched.jobs[k].next_run_time > now
    /\ now' = now + 60
    /\ SchedulerStep(sched, "minute", "", "none", 0)

\* ---------------------------------------------------------------------------
\* Prediction Cache (PredictionCache over Redis) and BaseAIModel.predict
\* ---------------------------------------------------------------------------
\* a PredictionCache as its constructor leaves it, with the Redis server behind
\* it: client is whether connect() obtained a client, backend_up whether the
\* server answers, entries the keys the server holds with value and expiry.
\* ret, raised and called record the last call: what it returned, what it
\* raised to its caller and whether the model was asked for a prediction.
\* written records the last set() call per model name and input
NewCache ==
    [enabled |-> TRUE, client |-> FALSE, backend_up |-> TRUE, entries |-> {},
     ret |-> NULL, raised |-> "none", called |-> FALSE, written |-> {}]

\* the keyword arguments an input is constructed from: the fields in some order
Kwargs ==
    {kw \in [1..Len(InputFields) -> [field : {InputFields[i] : i \in 1..Len(InputFields)}, value : UNION {FieldValues[InputFields[i]] : i \in 1..Len(InputFields)}]] :
        /\ \A i, j \in DOMAIN kw : kw[i].field = kw[j].field => i = j
        /\ \A i \in DOMAIN kw : kw[i].value \in FieldValues[kw[i].field]}

\* the pydantic model built from keyword arguments: a value per declared field
InputModel(kw) ==
    [f \in {InputFields[i] : i \in 1..Len(InputFields)} |->
        kw[CHOOSE i \in DOMAIN kw : kw[i].field = f].value]

\* a serialisation that writes the fields in the order they were passed
model_dump_json_kwargs_order(kw) == [i \in DOMAIN kw |-> <<kw[i].field, kw[i].value>>]

\* input_data.model_dump_json(exclude_none=True): the fields in the order the
\* schema declares them, each with its value
model_dump_json(kw) ==
    [i \in 1..Len(InputFields) |-> <<InputFields[i], InputModel(kw)[InputFields[i]]>>]

\* PredictionCache._generate_cache_key
generate_cache_key(model_name, kw) == <<"prediction", model_name, <<"md5", model_dump_json(kw)>>>>

\* output_data.model_dump_json() and output_class.model_validate_json
output_dump_json(output) == <<"retard_minutes", output>>

model_validate_json(value) == value[2]

\* the entry the server holds for the key at time t, if it has not expired
LiveEntries(c, key, t) == {e \in c.entries : e.key = key /\ t < e.expires_at}

CacheOutcome(c, ret, raised) == [c |-> c, ret |-> ret, raised |-> raised]

\* PredictionCache.get at time t
cache_get(c, model_name, kw, t) ==
    IF ~c.enabled \/ ~c.client
    THEN CacheOutcome(c, NULL, "none")
    ELSE IF ~c.backend_up
         THEN CacheOutcome(c, NULL, "none")
         ELSE LET key == generate_cache_key(model_name, kw)
                  found == LiveEntries(c, key, t)
              IN IF found # {}
                 THEN CacheOutcome(c, model_validate_json((CHOOSE e \in found : TRUE).value), "none")
                 ELSE CacheOutcome(c, NULL, "none")

\* a set() that lets the error of the Redis client through
cache_set_raising(c, model_name, kw, output, t) ==
    IF ~c.enabled \/ ~c.client THEN CacheOutcome(c, NULL, "none") ELSE CacheOutcome(c, NULL, "ConnectionError")

\* PredictionCache.set at time t, with the default ttl
cache_set(c, model_name, kw, output, t) ==
    IF ~c.enabled \/ ~c.client
    THEN CacheOutcome(c, NULL, "none")
    ELSE IF ~c.backend_up
         THEN CacheOutcome(c, NULL, "none")
         ELSE LET key == generate_cache_key(model_name, kw)
                  entry == [key |-> key, value |-> output_dump_json(output),
                            expires_at |-> t + CacheTtlSeconds]
              IN CacheOutcome([c EXCEPT !.entries = {e \in c.entries : e.key # key} \cup {entry}],
                              NULL, "none")

PredictOutcome(c, ret, raised, called) ==
    [c |-> c, ret |-> ret, raised |-> raised, called |-> called]

\* BaseAIModel.predict(input_data, use_cache=True) at time t: answers is whether
\* the model returns a prediction when it is asked, output that prediction
predict(c, model_name, kw, answers, output, t) ==
    LET cached_result == cache_get(c, model_name, kw, t)
    IN IF cached_result.raised # "none"
       THEN PredictOutcome(cached_result.c, NULL, cached_result.raised, FALSE)
       ELSE IF cached_result.ret # NULL
            THEN PredictOutcome(cached_result.c, cached_result.ret, "none", FALSE)
            ELSE IF ~answers
                 THEN PredictOutcome(cached_result.c, NULL, "AIModelException", TRUE)
                 ELSE LET stored == cache_set(cached_result.c, model_name, kw, output, t)
                      IN IF stored.raised # "none"
                         THEN PredictOutcome(stored.c, NULL, stored.raised, TRUE)
                         ELSE PredictOutcome(stored.c, output, "none", TRUE)

\* a step of the cache: the tables are not touched
CacheStep(c, op, ret, raised, called) ==
    /\ cache' = [c EXCEPT !.ret = ret, !.raised = raised, !.called = called]
    /\ last' = Observation(op, NULL, raised, FALSE, NotCalled, NULL, 0)
    /\ UNCHANGED <<departures, spots, flights, allocations, notifications, inflight, sync, sched, positions, releasing, batching, retry>>

\* PredictionCache.connect: the client is kept when the server answers the ping
CacheConnect ==
    /\ CacheStep([cache EXCEPT !.client = cache.enabled /\ cache.backend_up], "connect", NULL, "none", FALSE)
    /\ UNCHANGED now

\* the Redis server becomes unreachable, or reachable again
BackendChanges ==
    /\ CacheStep([cache EXCEPT !.backend_up = ~cache.backend_up], "backend", NULL, "none", FALSE)
    /\ UNCHANGED now

\* whether the cache can reach its server
Usable(c) == c.enabled /\ c.client /\ c.backend_up

\* the last set() calls that reached the server, with the one for this model
\* name and input replaced
Written(c, model_name, kw, output, t) ==
    IF ~Usable(c)
    THEN c.written
    ELSE {w \in c.written : ~(w.model_name = model_name /\ w.input = InputModel(kw))}
             \cup {[model_name |-> model_name, input |-> InputModel(kw), output |-> output,
                    at |-> t]}

CacheGet(model_name, kw) ==
    /\ LET done == cache_get(cache, model_name, kw, now)
       IN CacheStep(done.c, "get", done.ret, done.raised, FALSE)
    /\ UNCHANGED now

CacheSet(model_name, kw, output) ==
    /\ LET done == cache_set(cache, model_name, kw, output, now)
       IN CacheStep([done.c EXCEPT !.written = Written(cache, model_name, kw, output, now)],
                    "set", done.ret, done.raised, FALSE)
    /\ UNCHANGED now

Predict(model_name, kw, answers, output) ==
    /\ LET done == predict(cache, model_name, kw, answers, output, now)
       IN CacheStep([done.c EXCEPT !.written =
                         IF done.called /\ answers
                         THEN Written(cache, model_name, kw, output, now)
                         ELSE cache.written],
                    "predict", done.ret, done.raised, done.called)
    /\ UNCHANGED now

\* time passes for the cache
CacheTick ==
    /\ now < MaxCacheTicks * CacheTickSeconds
    /\ now' = now + CacheTickSeconds
    /\ CacheStep(cache, "tick", NULL, "none", FALSE)

\* ---------------------------------------------------------------------------
\* External calls: retry_with_backoff (app/utils/decorators.py) and the retry
\* loop of MLAPIClient.predict (app/services/external/ml_client.py)
\* ---------------------------------------------------------------------------
\* the decorations of the program: BaseModelClient._call_endpoint,
\* AviationStackClient._make_request and OpenSkyClient._make_authenticated_request,
\* with the defaults of exponential_base and max_delay (seconds)
DecoratedCalls ==
    {[max_retries |-> 3, initial_delay |-> 1, exponential_base |-> 2, max_delay |-> 60],
     [max_retries |-> 2, initial_delay |-> 1, exponential_base |-> 2, max_delay |-> 60],
     [max_retries |-> 3, initial_delay |-> 2, exponential_base |-> 2, max_delay |-> 60]}

\* the decorations explored: those of the program, and the same with a small max_delay
RetryParameters ==
    DecoratedCalls \cup {[c EXCEPT !.max_delay = SmallMaxDelay] : c \in DecoratedCalls}

\* the default of retry_count of MLAPIClient.predict; no caller passes another
RetryCounts == {3}

\* what one attempt of the wrapped function does
AttemptOutcomes == {"ok", "error"}

\* what one POST of MLAPIClient.predict does: a response, the statuses 422 and
\* 503, another error status, a transport error
PostOutcomes == {"ok", "422", "503", "status_error", "request_error"}

\* no external call is in progress
NoRetry ==
    [pc |-> "idle", call |-> "none", max_retries |-> 0, exponential_base |-> 0,
     max_delay |-> 0, attempt |-> 0, delay |-> 0, outcomes |-> <<>>, waits |-> <<>>,
     ret |-> NULL, raised |-> NULL, exception |-> "none"]

\* an uncapped backoff
next_delay_uncapped(delay, exponential_base, max_delay) == delay * exponential_base

\* delay = min(delay * exponential_base, max_delay) (decorators.py:49)
next_delay(delay, exponential_base, max_delay) ==
    IF delay * exponential_base < max_delay THEN delay * exponential_base ELSE max_delay

\* wrapper up to its loop: delay = initial_delay
wrapper_enter(parameters) ==
    [NoRetry EXCEPT !.pc = "attempt", !.call = "wrapper",
                    !.max_retries = parameters.max_retries,
                    !.exponential_base = parameters.exponential_base,
                    !.max_delay = parameters.max_delay,
                    !.delay = parameters.initial_delay]

\* one turn of the loop of wrapper up to its sleep: the attempt returns, or its
\* error is re-raised when attempt = max_retries, or the wrapper is about to sleep
wrapper_attempt(r, outcome) ==
    LET r1 == [r EXCEPT !.outcomes = Append(@, outcome)]
    IN IF outcome = "ok"
       THEN [r1 EXCEPT !.pc = "done", !.ret = r.attempt]
       ELSE IF r.attempt = r.max_retries
            THEN [r1 EXCEPT !.pc = "done", !.raised = r.attempt, !.exception = "Exception"]
            ELSE [r1 EXCEPT !.pc = "sleep"]

\* the end of a failed turn: asyncio.sleep(delay), the next delay, the next attempt
wrapper_sleep(r) ==
    [r EXCEPT !.pc = "attempt",
              !.waits = Append(@, r.delay),
              !.delay = next_delay(r.delay, r.exponential_base, r.max_delay),
              !.attempt = @ + 1]

\* MLAPIClient.predict up to its loop; with no turn to run it raises RuntimeError
ml_predict_enter(retry_count) ==
    IF retry_count > 0
    THEN [NoRetry EXCEPT !.pc = "attempt", !.call = "predict", !.max_retries = retry_count - 1]
    ELSE [NoRetry EXCEPT !.pc = "done", !.call = "predict", !.exception = "RuntimeError"]

\* one turn of the loop of MLAPIClient.predict (lines 92-124)
ml_predict_attempt(r, outcome) ==
    LET r1 == [r EXCEPT !.outcomes = Append(@, outcome)]
        raising(exception) == [r1 EXCEPT !.pc = "done", !.raised = r.attempt,
                                         !.exception = exception]
        again(exception) == IF r.attempt = r.max_retries
                            THEN raising(exception)
                            ELSE [r1 EXCEPT !.attempt = @ + 1]
    IN CASE outcome = "ok" -> [r1 EXCEPT !.pc = "done", !.ret = r.attempt]
         [] outcome = "422" -> raising("ValueError")
         [] outcome = "503" -> raising("RuntimeError")
         [] outcome = "status_error" -> again("HTTPStatusError")
         [] outcome = "request_error" -> again("RequestError")

RetryStep(r, op, t) ==
    /\ retry' = r
    /\ now' = t
    /\ last' = Observation(op, NULL, r.exception, FALSE, NotCalled, NULL, 0)
    /\ UNCHANGED <<departures, spots, flights, allocations, notifications, inflight, sync,
                   sched, cache, positions, releasing, batching>>

\* a decorated function is called
WrapperCall(parameters) ==
    /\ retry.pc = "idle"
    /\ now <= MaxTicks * TickSeconds
    /\ RetryStep(wrapper_enter(parameters), "wrapper", now)

\* the wrapped function ends one attempt
WrapperAttempt(outcome) ==
    /\ retry.pc = "attempt"
    /\ retry.call = "wrapper"
    /\ RetryStep(wrapper_attempt(retry, outcome), "attempt", now)

\* the sleep between two attempts ends
WrapperSleep ==
    /\ retry.pc = "sleep"
    /\ RetryStep(wrapper_sleep(retry), "sleep", now + retry.delay)

\* MLAPIClient.predict is called
MLPredictCall(retry_count) ==
    /\ retry.pc = "idle"
    /\ now <= MaxTicks * TickSeconds
    /\ RetryStep(ml_predict_enter(retry_count), "ml_predict", now)

\* the POST of one turn of MLAPIClient.predict ends
MLPredictAttempt(outcome) ==
    /\ retry.pc = "attempt"
    /\ retry.call = "predict"
    /\ RetryStep(ml_predict_attempt(retry, outcome), "attempt", now)

\* the caller takes the result or the error of the call
CallReturns ==
    /\ retry.pc = "done"
    /\ RetryStep(NoRetry, "returned", now)

\* ---------------------------------------------------------------------------
\* Specification: the operations run one at a time
\* ---------------------------------------------------------------------------
\* the state after start-up with the parking spots of spot_table
InitWith(spot_table) ==
    /\ now = 0
    /\ departures = 0
    /\ spots = spot_table
    /\ flights = [f \in FlightIds |->
                      [status |-> "none", parking_spot_id |-> NoSpot,
                       predicted_occupation_minutes |-> NULL, position |-> NULL]]
    /\ allocations = <<>>
    /\ notifications = <<>>
    /\ inflight = [f \in FlightIds |-> Idle]
    /\ last = Observation("init", NULL, "none", FALSE, NotCalled, NULL, 0)
    /\ sync = NoSync
    /\ sched = NewScheduler
    /\ cache = NewCache
    /\ positions = NoPositions
    /\ releasing = NoRelease
    /\ batching = NoBatch
    /\ retry = NoRetry

Init == InitWith(SeedSpots)

Next ==
    \/ \E icao24 \in FlightIds, relevant \in RelevanceChoices, ml_ok \in PredictionChoices,
          minutes \in OccupationChoices, conflict_data \in ConflictChoices :
            ProcessSingleFlight(icao24, relevant, ml_ok, minutes, conflict_data)
    \/ \E icao24 \in FlightIds : AssignParking(icao24)
    \/ \E icao24 \in FlightIds : MilitaryTransfer(icao24)
    \/ \E icao24 \in FlightIds : CivilRecall(icao24)
    \/ DepartureMonitoringJob
    \/ \E icao24 \in FlightIds : FlightCompleted(icao24)
    \/ Tick

Spec == Init /\ [][Next]_vars

\* ---------------------------------------------------------------------------
\* Specification: coroutines interleave at their awaits
\* ---------------------------------------------------------------------------
\* process_single_flight up to the return of the query at line 89 of allocate_spot
PipelineStart(icao24, minutes, conflict_data) ==
    LET st1 == upsert(Store, icao24)
        st2 == update_predictions(st1, icao24, minutes)
        civil_spots == get_available_by_type(st2, "civil", get_aircraft_size("A320"))
    IN /\ inflight[icao24].pc = "idle"
       /\ CommitTables(st2, Observation("get_available_by_type", icao24, "none", FALSE,
                                        NotCalled, NULL, 0))
       /\ inflight' = [inflight EXCEPT ![icao24] =
                           Suspended("allocate_spot", civil_spots, minutes, conflict_data)]

\* the rest of allocate_spot and of process_single_flight
PipelineFinish(icao24) ==
    LET held == inflight[icao24]
        outcome == allocate_spot_with(Store, icao24, held.minutes, held.conflict_data,
                                      held.civil_spots)
    IN /\ held.pc = "allocate_spot"
       /\ CommitTables(outcome.st,
                       Observation("process_single_flight", icao24, "none",
                                   outcome.raised = "none", Returned(outcome),
                                   held.conflict_data, 0))
       /\ inflight' = [inflight EXCEPT ![icao24] = Idle]

\* POST /parking/civil-recall up to the return of the query at line 438
RecallStart(icao24) ==
    LET civil_spots == get_available_by_type(Store, "civil", get_aircraft_size("A320"))
    IN /\ inflight[icao24].pc = "idle"
       /\ flights[icao24].status # "none"
       /\ civil_spots # <<>>
       /\ CommitTables(Store, Observation("get_available_by_type", icao24, "none", FALSE,
                                          NotCalled, NULL, 0))
       /\ inflight' = [inflight EXCEPT ![icao24] =
                           Suspended("recall_from_military", civil_spots, NULL, NULL)]

\* the call of recall_from_military with civil_spots[0]
RecallFinish(icao24) ==
    LET held == inflight[icao24]
        outcome == recall_from_military(Store, icao24, held.civil_spots[1])
    IN /\ held.pc = "recall_from_military"
       /\ CommitTables(outcome.st,
                       Observation("recall_from_military", icao24, outcome.raised, outcome.ret,
                                   NotCalled, NULL, 0))
       /\ inflight' = [inflight EXCEPT ![icao24] = Idle]

NextConc ==
    \/ \E icao24 \in FlightIds, minutes \in OccupationChoices,
          conflict_data \in InterleavedConflictChoices :
            PipelineStart(icao24, minutes, conflict_data)
    \/ \E icao24 \in FlightIds : PipelineFinish(icao24)
    \/ \E icao24 \in FlightIds : RecallStart(icao24)
    \/ \E icao24 \in FlightIds : RecallFinish(icao24)
    \/ \E icao24 \in FlightIds : MilitaryTransfer(icao24)
    \/ DepartureMonitoringJob
    \/ \E icao24 \in FlightIds : FlightCompleted(icao24)

SpecConc == Init /\ [][NextConc]_vars

\* ---------------------------------------------------------------------------
\* Specification of the synchronisation cycles
\* ---------------------------------------------------------------------------
NextSync ==
    \/ \E primary_ok \in BOOLEAN, secondary_ok \in BOOLEAN, n \in FetchLengths,
          relevant \in [FlightIds -> BOOLEAN] :
            SyncJob(primary_ok, secondary_ok, n, relevant)
    \/ Tick

SpecSync == Init /\ [][NextSync]_vars

\* ---------------------------------------------------------------------------
\* Specification of the per-flight result: the end of process_single_flight and
\* the counting loop applied to what allocate_spot can hand back
\* ---------------------------------------------------------------------------
\* the ways allocate_spot is written to end: it raises, it returns an allocation,
\* or it returns its saturation result (ParkingService.allocate_spot, last return)
AllocateEndings ==
    {Raised(Store, "Exception"),
     AllocationOutcome(Store, "none", TRUE, "P3", FALSE, "Civil spot allocated"),
     AllocationOutcome(Store, "none", FALSE, NoSpot, FALSE, "Complete parking saturation - no spots available (civil and military full). Admin intervention required.")}

\* one batch of pipelines, each from the return of allocate_spot on, counted
CountPipelines(endings) ==
    LET results == [i \in DOMAIN endings |->
                        PipelineResult(Fetched(Len(endings))[i], finish_pipeline(endings[i]))]
        counted == count_results(results, 0, 0)
    IN /\ sync' = [sync EXCEPT !.stats = Stats("OpenSky", "none", Len(endings),
                                               counted.successful, counted.failed),
                               !.fetched = Fetched(Len(endings)),
                               !.results = results]
       /\ last' = Observation("process_flights_batch", NULL, "none", FALSE, NotCalled, NULL,
                              Len(endings))
       /\ UNCHANGED <<now, departures, spots, flights, allocations, notifications, inflight, sched, cache, positions, releasing, batching, retry>>

NextPipelineResult ==
    \E n \in 1..MaxPipelines : \E endings \in [1..n -> AllocateEndings] :
        CountPipelines(endings)

SpecPipelineResult == Init /\ [][NextPipelineResult]_vars

\* ---------------------------------------------------------------------------
\* Specification of the external calls: every attempt ends (the HTTP clients are
\* built with a timeout) and every sleep ends, which the fairness conditions say
\* ---------------------------------------------------------------------------
NextRetry ==
    \/ \E parameters \in RetryParameters : WrapperCall(parameters)
    \/ \E outcome \in AttemptOutcomes : WrapperAttempt(outcome)
    \/ WrapperSleep
    \/ \E retry_count \in RetryCounts : MLPredictCall(retry_count)
    \/ \E outcome \in PostOutcomes : MLPredictAttempt(outcome)
    \/ CallReturns
    \/ Tick

SpecRetry ==
    /\ Init
    /\ [][NextRetry]_vars
    /\ WF_vars(\E outcome \in AttemptOutcomes : WrapperAttempt(outcome))
    /\ WF_vars(WrapperSleep)
    /\ WF_vars(\E outcome \in PostOutcomes : MLPredictAttempt(outcome))

\* ---------------------------------------------------------------------------
\* Specification of the release job among the operations that close allocations:
\* the job is suspended at its awaits while requests and other jobs run
\* ---------------------------------------------------------------------------
NextRelease ==
    \/ \E icao24 \in FlightIds, minutes \in OccupationChoices :
          /\ flights[icao24].status = "none"
          /\ ProcessSingleFlight(icao24, TRUE, TRUE, minutes, 0)
    \/ \E icao24 \in FlightIds : MilitaryTransfer(icao24)
    \/ \E icao24 \in FlightIds : RecallStart(icao24)
    \/ \E icao24 \in FlightIds : RecallFinish(icao24)
    \/ \E icao24 \in FlightIds : FlightCompleted(icao24)
    \/ ReleaseStart
    \/ ReleaseNext
    \/ Tick

SpecRelease == Init /\ [][NextRelease]_vars

\* ---------------------------------------------------------------------------
\* Specification of the recall under storage errors
\* ---------------------------------------------------------------------------
NextStorageFailure ==
    \/ \E icao24 \in FlightIds, minutes \in OccupationChoices :
          /\ flights[icao24].status = "none"
          /\ ProcessSingleFlight(icao24, TRUE, TRUE, minutes, 0)
    \/ \E icao24 \in FlightIds : MilitaryTransfer(icao24)
    \/ \E icao24 \in FlightIds, failing_call \in {NoFailure} \cup DOMAIN RecallCalls :
          CivilRecallInterrupted(icao24, failing_call)
    \/ Tick

SpecStorageFailure == Init /\ [][NextStorageFailure]_vars

\* ---------------------------------------------------------------------------
\* Specification of the transfers to the military pool: the writes of the
\* preemptive transfer and the manual transfer of the endpoint
\* ---------------------------------------------------------------------------
NextTransfer ==
    \/ \E icao24 \in FlightIds, minutes \in OccupationChoices :
          /\ flights[icao24].status = "none"
          /\ ProcessSingleFlight(icao24, TRUE, TRUE, minutes, 0)
    \/ PreemptiveTransferWrites
    \/ \E icao24 \in FlightIds : MilitaryTransfer(icao24)
    \/ \E icao24 \in FlightIds : CivilRecall(icao24)
    \/ Tick

SpecTransfer == Init /\ [][NextTransfer]_vars

\* ---------------------------------------------------------------------------
\* Specification of the choice of a spot: the pipeline allocates on every spot
\* table
\* ---------------------------------------------------------------------------
InitSpotChoice == \E spot_table \in SpotTables : InitWith(spot_table)

NextSpotChoice ==
    \E icao24 \in FlightIds, minutes \in OccupationChoices, conflict_data \in {0, 100} :
        /\ flights[icao24].status = "none"
        /\ ProcessSingleFlight(icao24, TRUE, TRUE, minutes, conflict_data)

SpecSpotChoice == InitSpotChoice /\ [][NextSpotChoice]_vars

\* ---------------------------------------------------------------------------
\* Specification of the batches of one cycle: the pipelines of a batch end in
\* any order
\* ---------------------------------------------------------------------------
NextBatch ==
    \/ \E n \in FetchLengths : ProcessFlightsBatch(n)
    \/ \E k \in batching.running, ret \in BOOLEAN : PipelineEnds(k, ret)
    \/ GatherReturns

SpecBatch == Init /\ [][NextBatch]_vars

\* ---------------------------------------------------------------------------
\* Specification of the recall job: flights are moved to the military pool and
\* the job runs when civil spots are free again
\* ---------------------------------------------------------------------------
NextRecallJob ==
    \/ \E icao24 \in FlightIds, minutes \in OccupationChoices :
          /\ flights[icao24].status = "none"
          /\ ProcessSingleFlight(icao24, TRUE, TRUE, minutes, 0)
    \/ \E icao24 \in FlightIds : MilitaryTransfer(icao24)
    \/ \E icao24 \in FlightIds : FlightCompleted(icao24)
    \/ DepartureMonitoringJob
    \/ CivilRecallJob
    \/ Tick

SpecRecallJob == Init /\ [][NextRecallJob]_vars

\* ---------------------------------------------------------------------------
\* Specification of the position sync: flights are stored by the pipeline,
\* depart, and state vectors arrive for them
\* ---------------------------------------------------------------------------
NextPositions ==
    \/ \E icao24 \in FlightIds, minutes \in OccupationChoices :
          /\ flights[icao24].status = "none"
          /\ ProcessSingleFlight(icao24, TRUE, TRUE, minutes, 0)
    \/ \E icao24 \in FlightIds : FlightCompleted(icao24)
    \/ \E fetch_ok \in BOOLEAN, state_vectors \in StateVectors :
          SyncPositions(fetch_ok, state_vectors)

SpecPositions == Init /\ [][NextPositions]_vars

\* ---------------------------------------------------------------------------
\* Specification of the Job Scheduler
\* ---------------------------------------------------------------------------
NextSched ==
    \/ Start
    \/ \E cancel \in BOOLEAN : Stop(cancel)
    \/ \E minutes \in IntervalChoices : UpdateSyncInterval(minutes)
    \/ \E k \in DOMAIN sched.jobs : Fire(k)
    \/ \E job_id \in JobIds : \E k \in DOMAIN sched.runs[job_id] : RunWrites(job_id, k)
    \/ \E job_id \in JobIds, failed \in BOOLEAN :
          \E k \in DOMAIN sched.runs[job_id] : RunEnds(job_id, k, failed)
    \/ MinutePasses

SpecSched == Init /\ [][NextSched]_vars

\* ---------------------------------------------------------------------------
\* Specification of the Prediction Cache
\* ---------------------------------------------------------------------------
NextCache ==
    \/ CacheConnect
    \/ BackendChanges
    \/ \E model_name \in ModelNames, kw \in Kwargs : CacheGet(model_name, kw)
    \/ \E model_name \in ModelNames, kw \in Kwargs, output \in OutputChoices :
          CacheSet(model_name, kw, output)
    \/ \E model_name \in ModelNames, kw \in Kwargs, answers \in BOOLEAN,
          output \in OutputChoices :
            Predict(model_name, kw, answers, output)
    \/ CacheTick

SpecCache == Init /\ [][NextCache]_vars

\* ---------------------------------------------------------------------------
\* Properties
\* ---------------------------------------------------------------------------
AircraftSize == get_aircraft_size("A320")

IsActive(allocation) == allocation.actual_end_time = NULL

ActiveOnSpot(st, spot_id) ==
    {i \in DOMAIN st.allocations :
        st.allocations[i].spot_id = spot_id /\ IsActive(st.allocations[i])}

ActiveCivil(st) ==
    {i \in DOMAIN st.allocations :
        IsActive(st.allocations[i]) /\ ~st.allocations[i].overflow_to_military}

SpotsOfType(spot_type) == {s \in DOMAIN SeedSpots : SeedSpots[s].spot_type = spot_type}

\* the step was made by an operation that called allocate_spot for flight icao24
AllocateCalled(observation, icao24) ==
    /\ observation.op \in {"process_single_flight", "assign_parking"}
    /\ observation.flight = icao24
    /\ observation.allocate.raised # "not_called"

\* the step was made by a call of recall_from_military for flight icao24
RecallCalled(observation, icao24) ==
    observation.op = "recall_from_military" /\ observation.flight = icao24

\* rows i of the table st created after the table had n rows
NewRows(st, n) == {i \in DOMAIN st.allocations : i > n}

\* C1: in every state reached by completed allocate, transfer, recall and release
\* operations, a spot is occupied if and only if exactly one allocation with null
\* actual_end_time references it
C1_OccupiedIffOneActiveAllocation ==
    \A s \in DOMAIN spots :
        spots[s].status = "occupied" <=> Cardinality(ActiveOnSpot(Store, s)) = 1

\* a recall has just moved a flight: its military spot is free again without an
\* active allocation, its civil spot occupied with one
C1_Witness ==
    /\ last.op = "recall_from_military"
    /\ last.ret
    /\ \E m \in SpotsOfType("military"), c \in SpotsOfType("civil") :
          /\ spots[m].status = "available"
          /\ \E i \in DOMAIN allocations : allocations[i].spot_id = m /\ ~IsActive(allocations[i])
          /\ spots[c].status = "occupied"
          /\ \E i \in ActiveOnSpot(Store, c) : allocations[i].flight_icao24 = last.flight

C6_PreemptiveTransfer ==
    [][\A f \in FlightIds :
          ( /\ AllocateCalled(last', f)
            /\ ConflictProbability(last'.conflict_data) = 0
            /\ ActiveOfFlight(Store, f) = {}
            /\ \A c \in SpotsOfType("civil") : spots[c].status = "occupied"
            /\ get_available_by_type(Store, "military", AircraftSize) # <<>> )
          => /\ last'.allocate.raised = "none"
             /\ last'.allocate.success
             /\ ~last'.allocate.overflow_to_military
             /\ \E i \in ActiveCivil(Store) :
                   /\ \A j \in ActiveCivil(Store) :
                         allocations[j].predicted_end_time <= allocations[i].predicted_end_time
                   /\ ~IsActive(allocations'[i])
                   /\ last'.allocate.spot_id = allocations[i].spot_id
                   /\ \E k \in NewRows(Store', Len(allocations)) :
                         /\ allocations'[k].flight_icao24 = allocations[i].flight_icao24
                         /\ allocations'[k].spot_id \in SpotsOfType("military")
                         /\ allocations'[k].overflow_to_military
                         /\ IsActive(allocations'[k])
                   /\ \E k \in NewRows(Store', Len(allocations)) :
                         /\ allocations'[k].flight_icao24 = f
                         /\ allocations'[k].spot_id = allocations[i].spot_id
                         /\ ~allocations'[k].overflow_to_military
                         /\ IsActive(allocations'[k])]_vars

\* C7: when no civil spot and no military spot is available, allocate does not raise:
\* it returns success = false with a reason that refers to saturation, creates exactly
\* one saturation notification and no allocation
C7_SaturationIsReturned ==
    [][\A f \in FlightIds :
          ( /\ AllocateCalled(last', f)
            /\ get_available_by_type(Store, "civil", AircraftSize) = <<>>
            /\ get_available_by_type(Store, "military", AircraftSize) = <<>> )
          => /\ last'.allocate.raised = "none"
             /\ ~last'.allocate.success
             /\ last'.allocate.reason = "Complete parking saturation"
             /\ Len(notifications') = Len(notifications) + 1
             /\ notifications'[Len(notifications')].notification_type = "saturation"
             /\ allocations' = allocations]_vars

\* C8: when allocate gets past its civil step, there is no active civil allocation to
\* transfer and a fitting military spot is available, it creates the flight's allocation
\* on that military spot with overflow_to_military, marks the spot occupied, emits one
\* overflow notification and returns success with overflow_to_military
C8_MilitaryOverflow ==
    [][\A f \in FlightIds :
          ( /\ AllocateCalled(last', f)
            /\ \/ get_available_by_type(Store, "civil", AircraftSize) = <<>>
               \/ ConflictDetected(last'.conflict_data)
            /\ ActiveCivil(Store) = {}
            /\ get_available_by_type(Store, "military", AircraftSize) # <<>> )
          => LET military_spot == get_available_by_type(Store, "military", AircraftSize)[1]
             IN /\ last'.allocate.raised = "none"
                /\ last'.allocate.success
                /\ last'.allocate.overflow_to_military
                /\ last'.allocate.spot_id = military_spot
                /\ spots'[military_spot].status = "occupied"
                /\ \E k \in NewRows(Store', Len(allocations)) :
                      /\ allocations'[k].flight_icao24 = f
                      /\ allocations'[k].spot_id = military_spot
                      /\ allocations'[k].overflow_to_military
                      /\ IsActive(allocations'[k])
                /\ Len(notifications') = Len(notifications) + 1
                /\ notifications'[Len(notifications')].notification_type = "overflow"]_vars

\* C9: recall of a flight that has no active allocation, or whose one active allocation
\* is not a military overflow, returns false and changes no spot, allocation, flight or
\* notification
C9_RecallRefused ==
    [][\A f \in FlightIds :
          ( /\ RecallCalled(last', f)
            /\ \/ ActiveOfFlight(Store, f) = {}
               \/ /\ Cardinality(ActiveOfFlight(Store, f)) = 1
                  /\ \A i \in ActiveOfFlight(Store, f) : ~allocations[i].overflow_to_military )
          => /\ last'.raised = "none"
             /\ ~last'.ret
             /\ UNCHANGED <<spots, flights, allocations, notifications>>]_vars

\* a recall was refused for a flight whose active allocation is on a civil spot
C9_Witness ==
    /\ last.op = "recall_from_military"
    /\ last.raised = "none"
    /\ ~last.ret
    /\ Cardinality(ActiveOfFlight(Store, last.flight)) = 1
    /\ \A i \in ActiveOfFlight(Store, last.flight) :
          /\ ~allocations[i].overflow_to_military
          /\ allocations[i].spot_id \in SpotsOfType("civil")

\* C10: recall of a flight whose one active allocation is a military overflow returns true;
\* that allocation is closed with actual_start_time = allocated_at and actual_end_time =
\* now, its military spot is available, the supplied civil spot is occupied, and the
\* flight has exactly one active allocation, on the civil spot, with the original
\* predicted_duration_minutes and without overflow
C10_RecallMovesToCivil ==
    [][\A f \in FlightIds :
          ( /\ RecallCalled(last', f)
            /\ Cardinality(ActiveOfFlight(Store, f)) = 1
            /\ \A i \in ActiveOfFlight(Store, f) : allocations[i].overflow_to_military )
          => LET old == CHOOSE i \in ActiveOfFlight(Store, f) : TRUE
                 civil_spot == get_available_by_type(Store, "civil", AircraftSize)[1]
             IN /\ last'.raised = "none"
                /\ last'.ret
                /\ allocations'[old].actual_start_time = allocations[old].allocated_at
                /\ allocations'[old].actual_end_time = now
                /\ spots'[allocations[old].spot_id].status = "available"
                /\ spots'[civil_spot].status = "occupied"
                /\ Cardinality(ActiveOfFlight(Store', f)) = 1
                /\ \A k \in ActiveOfFlight(Store', f) :
                      /\ k # old
                      /\ allocations'[k].spot_id = civil_spot
                      /\ allocations'[k].predicted_duration_minutes
                             = allocations[old].predicted_duration_minutes
                      /\ ~allocations'[k].overflow_to_military]_vars

\* a recall succeeded later than the overflow allocation was made: the closed row
\* keeps its allocated_at as start and the flight is on a civil spot
C10_Witness ==
    /\ last.op = "recall_from_military"
    /\ last.ret
    /\ \E i \in DOMAIN allocations :
          /\ allocations[i].flight_icao24 = last.flight
          /\ allocations[i].overflow_to_military
          /\ allocations[i].actual_end_time = now
          /\ allocations[i].allocated_at < now
    /\ \A k \in ActiveOfFlight(Store, last.flight) :
          allocations[k].spot_id \in SpotsOfType("civil")
    /\ ActiveOfFlight(Store, last.flight) # {}

\* elapsed seconds as minutes rounded to the nearest minute
RoundedMinutes(seconds) == (2 * seconds + 60) \div 120

\* the active allocations the release job finds: those of completed flights
Releasable(st) ==
    {i \in DOMAIN st.allocations :
        /\ IsActive(st.allocations[i])
        /\ st.flights[st.allocations[i].flight_icao24].status = "completed"}

\* C11: releasing an active allocation made at T0 at time T sets actual_start_time = T0,
\* actual_end_time = T and actual_duration_minutes = T - T0 rounded to the nearest
\* minute, makes the spot available and clears the flight's spot assignment
C11_ReleaseRecordsRoundedDuration ==
    [][last'.op = "departure_monitoring_job"
          => \A i \in Releasable(Store) :
                /\ allocations'[i].actual_start_time = allocations[i].allocated_at
                /\ allocations'[i].actual_end_time = now
                /\ allocations'[i].actual_duration_minutes
                       = RoundedMinutes(now - allocations[i].allocated_at)
                /\ spots'[allocations[i].spot_id].status = "available"
                /\ flights'[allocations[i].flight_icao24].parking_spot_id = NoSpot]_vars

\* C12: each release of an active allocation emits exactly one parking-freed
\* notification for the released flight
C12_ReleaseNotifiesOnce ==
    [][last'.op = "departure_monitoring_job"
          => \A f \in FlightIds :
                Cardinality({k \in DOMAIN notifications' :
                                /\ k > Len(notifications)
                                /\ notifications'[k].flight_icao24 = f
                                /\ notifications'[k].notification_type = "parking_freed"})
                    = Cardinality({i \in Releasable(Store) :
                                      allocations[i].flight_icao24 = f})]_vars

\* C13: across successive sync cycles, once the secondary flight source has been
\* called it is not called again until the cooldown (12 hours) has elapsed; a sync
\* whose primary fetch fails while the gate is closed makes no call to the secondary
C13_SecondaryRespectsCooldown ==
    [][(/\ last'.op = "sync_job"
        /\ sync'.aviationstack_called
        /\ sync.aviationstack_called_at # NULL)
          => now - sync.aviationstack_called_at >= AviationstackCooldownSeconds]_vars

\* C14: in a sync cycle a flight whose pipeline raises or returns an error does not
\* keep the other flights of its batch or of later batches from being processed:
\* the pipeline of every fetched flight is run exactly once, in the fetched order,
\* and the cycle itself does not raise
C14_EveryFetchedFlightProcessedOnce ==
    last.op = "sync_job"
        => /\ last.raised = "none"
           /\ Len(sync.results) = Len(sync.fetched)
           /\ \A i \in DOMAIN sync.fetched : sync.results[i].flight = sync.fetched[i]
           /\ sync.stats.total_flights = Len(sync.fetched)

\* a cycle of two batches in which a pipeline of the first batch raised, another
\* returned an error, and the flight of the second batch was still processed
C14_Witness ==
    /\ last.op = "sync_job"
    /\ Len(sync.fetched) > BatchSize
    /\ Len(sync.results) = Len(sync.fetched)
    /\ \E i \in 1..BatchSize : sync.results[i].caught # "none"
    /\ \E i \in 1..BatchSize : ~sync.results[i].ret /\ sync.results[i].caught = "none"
    /\ \E i \in 1..BatchSize : sync.results[i].ret

SameScheduler == [sched' EXCEPT !.job = sched.job] = sched

\* C16: for each of the three triggers at most one execution of its job is running
\* at any time; a tick that arrives while the previous run of the same trigger is
\* still executing is skipped and not queued: a run starts only at a tick of its
\* trigger that finds no run of the job executing
C16_NoOverlapSkipNotQueue ==
    [][/\ \A j \in JobIds : Len(sched'.runs[j]) <= 1
       /\ \A j \in JobIds :
             Len(sched'.runs[j]) > Len(sched.runs[j])
                 => last'.op = "tick" /\ sched'.job = j /\ sched.runs[j] = <<>>
       /\ (last'.op = "tick" /\ sched.runs[sched'.job] # <<>>)
             => /\ sched'.runs = sched.runs
                /\ last'.raised = "MaxInstancesReachedError"]_vars

\* a tick of a trigger was skipped while the previous run of its job is executing
C16_Witness ==
    /\ last.op = "tick"
    /\ last.raised = "MaxInstancesReachedError"
    /\ Len(sched.runs[sched.job]) = 1

\* C17: stop() returns only after every job run that was executing when stop() was
\* called has finished; no run is abandoned between its first and its last write.
\* stop() awaits nothing, so no run advances between its call and its return
C17_StopDrainsRunningJobs ==
    [][(last'.op = "stop" /\ sched.is_running)
          => /\ \A j \in JobIds : sched.runs[j] = <<>>
             /\ ~sched'.abandoned]_vars

\* C18: start() and stop() are idempotent: start() on a running scheduler changes
\* nothing and leaves exactly one sync, one recall and one release trigger
\* registered, and stop() on a stopped scheduler changes nothing and raises no error
C18_StartStopIdempotent ==
    [][/\ (last'.op = "start" /\ sched.is_running)
             => SameScheduler /\ last'.raised = "none"
       /\ (last'.op = "stop" /\ ~sched.is_running)
             => SameScheduler /\ last'.raised = "none"
       /\ sched'.is_running
             => /\ Len(sched'.jobs) = Cardinality(JobIds)
                /\ \A j \in JobIds : Cardinality(JobIndexes(sched', j)) = 1]_vars

\* start() was called on a scheduler that had been running for a while: the
\* triggers keep the fire times they had
C18_Witness ==
    /\ last.op = "start"
    /\ last.raised = "none"
    /\ sched.is_running
    /\ \A j \in JobIds : Cardinality(JobIndexes(sched, j)) = 1
    /\ \E k \in DOMAIN sched.jobs :
          sched.jobs[k].next_run_time # now + sched.jobs[k].interval * 60

\* C19: after any sequence of interval updates the sync trigger's interval is a
\* whole number of minutes in [1,60]; a call with a value outside that range is
\* rejected and leaves the interval and the schedule unchanged, and no call
\* changes the recall or the release trigger
C19_IntervalStaysInRange ==
    [][/\ sched'.interval_minutes \in MinIntervalMinutes..MaxIntervalMinutes
       /\ \A k \in JobIndexes(sched', "flight_sync_job") :
             sched'.jobs[k].interval \in MinIntervalMinutes..MaxIntervalMinutes
       /\ last'.op = "update_sync_interval"
             => /\ last'.count \notin MinIntervalMinutes..MaxIntervalMinutes
                      => last'.raised # "none" /\ SameScheduler
                /\ last'.count \in MinIntervalMinutes..MaxIntervalMinutes
                      => last'.raised = "none" /\ sched'.interval_minutes = last'.count
                /\ Len(sched'.jobs) = Len(sched.jobs)
                /\ \A k \in DOMAIN sched.jobs :
                      sched.jobs[k].id # "flight_sync_job" => sched'.jobs[k] = sched.jobs[k]]_vars

\* on a running scheduler whose sync trigger was rescheduled to the longest
\* interval, an update to a value out of range was rejected
C19_Witness ==
    /\ last.op = "update_sync_interval"
    /\ last.raised = "HTTPException"
    /\ sched.is_running
    /\ sched.interval_minutes = MaxIntervalMinutes
    /\ \E k \in JobIndexes(sched, "flight_sync_job") :
          sched.jobs[k].interval = MaxIntervalMinutes

\* C20: if a run of a scheduled job fails with an error, the error is contained in
\* that run: no in-progress marker remains for it, the trigger keeps its schedule,
\* and a later tick of the trigger that finds no run executing starts a run
C20_FailedRunDoesNotBlockLaterTicks ==
    [][/\ last'.op = "run_fails"
             => /\ sched'.instances[sched'.job] = Len(sched'.runs[sched'.job])
                /\ sched'.jobs = sched.jobs
                /\ sched'.state = sched.state
       /\ (last'.op = "tick" /\ sched.runs[sched'.job] = <<>>)
             => /\ last'.raised = "none"
                /\ sched'.runs[sched'.job] = <<"started">>]_vars

\* a tick started a run of a job of which an earlier run had failed
C20_Witness ==
    /\ last.op = "tick"
    /\ last.raised = "none"
    /\ sched.has_failed[sched.job]
    /\ sched.runs[sched.job] = <<"started">>

\* what get() is to return at time t for a model name and an input, from the
\* set() calls that reached the server
Expected(c, model_name, input, t) ==
    LET live == {w \in c.written :
                    /\ w.model_name = model_name
                    /\ w.input = input
                    /\ t < w.at + CacheTtlSeconds}
    IN IF live = {} THEN NULL ELSE (CHOOSE w \in live : TRUE).output

\* C21: when the cache backend is unreachable or fails, get() returns a miss and
\* set() does nothing, and neither raises to its caller; the caller's prediction
\* then proceeds as on an ordinary miss: the model is asked and its answer returned
C21_CacheFailureDegrades ==
    /\ last.op \in {"get", "set"} => cache.raised = "none"
    /\ ~Usable(cache)
          => \A model_name \in ModelNames, kw \in Kwargs, output \in OutputChoices :
                /\ cache_get(cache, model_name, kw, now) = CacheOutcome(cache, NULL, "none")
                /\ cache_set(cache, model_name, kw, output, now) = CacheOutcome(cache, NULL, "none")
                /\ predict(cache, model_name, kw, TRUE, output, now)
                       = PredictOutcome(cache, output, "none", TRUE)

\* a prediction was made while the server was unreachable and held an entry
C21_Witness ==
    /\ last.op = "predict"
    /\ cache.client
    /\ ~cache.backend_up
    /\ cache.entries # {}
    /\ cache.called
    /\ cache.ret # NULL
    /\ cache.raised = "none"

\* C22: a get(modelName, input) issued after set(modelName, input, output) and
\* before the entry expires returns that output; the key depends only on
\* modelName and the content of input, so equal inputs hit the same entry and the
\* same input under another modelName is a miss; after the ttl get returns a miss
C22_GetReturnsLiveEntry ==
    Usable(cache)
        => \A model_name \in ModelNames, kw \in Kwargs :
              /\ cache_get(cache, model_name, kw, now).ret
                     = Expected(cache, model_name, InputModel(kw), now)
              /\ cache_get(cache, model_name, kw, now).raised = "none"

\* an entry is hit by an equal input built in another order and missed under the
\* other model name, while an entry written earlier has expired
C22_Witness ==
    /\ Usable(cache)
    /\ \E w \in cache.written, kw1, kw2 \in Kwargs, other \in ModelNames :
          /\ kw1 # kw2
          /\ InputModel(kw1) = w.input
          /\ InputModel(kw2) = w.input
          /\ cache_get(cache, w.model_name, kw1, now).ret = w.output
          /\ cache_get(cache, w.model_name, kw2, now).ret = w.output
          /\ other # w.model_name
          /\ cache_get(cache, other, kw1, now).ret = NULL
    /\ \E w \in cache.written, kw \in Kwargs :
          /\ InputModel(kw) = w.input
          /\ now >= w.at + CacheTtlSeconds
          /\ cache_get(cache, w.model_name, kw, now).ret = NULL

Failing(state_vectors) == {i \in DOMAIN state_vectors : state_vectors[i].fails}

\* the state vectors of a call that update a stored flight
Updating(state_vectors) ==
    {i \in DOMAIN state_vectors :
         ~state_vectors[i].fails /\ flights[state_vectors[i].icao24].status # "none"}

\* C24: sync_realtime_positions changes only the telemetry of flights already
\* stored: no flight record is created for an unknown state vector, no spot, no
\* allocation and no lifecycle status changes; a state vector whose update fails
\* is counted in errors and the state vectors after it are still processed
C24_PositionSyncFrame ==
    [][last'.op = "sync_realtime_positions" =>
          /\ spots' = spots
          /\ allocations' = allocations
          /\ notifications' = notifications
          /\ \A f \in FlightIds :
                /\ flights'[f] = [flights[f] EXCEPT !.position = flights'[f].position]
                /\ flights[f].status = "none" => flights'[f] = flights[f]
          /\ LET state_vectors == positions'.state_vectors
             IN /\ positions'.result.errors
                       = IF last'.ret THEN Cardinality(Failing(state_vectors)) ELSE 1
                /\ positions'.result.updated_count = Cardinality(Updating(state_vectors))
                /\ \A i \in Updating(state_vectors) :
                      (\A j \in Updating(state_vectors) :
                           j > i => state_vectors[j].icao24 # state_vectors[i].icao24)
                         => flights'[state_vectors[i].icao24].position
                                = state_vectors[i].position]_vars

\* a call with three state vectors: the first is of an aircraft that has no
\* record, the update of the second fails, the third updates a stored flight that
\* holds a spot
C24_Witness ==
    /\ last.op = "sync_realtime_positions"
    /\ Len(positions.state_vectors) = 3
    /\ ~positions.state_vectors[1].fails
    /\ flights[positions.state_vectors[1].icao24].status = "none"
    /\ positions.state_vectors[2].fails
    /\ ~positions.state_vectors[3].fails
    /\ positions.result.errors = 1
    /\ positions.result.updated_count = 1
    /\ flights[positions.state_vectors[3].icao24].position = positions.state_vectors[3].position
    /\ flights[positions.state_vectors[3].icao24].parking_spot_id # NoSpot

\* ---------------------------------------------------------------------------
\* Closing of allocations
\* ---------------------------------------------------------------------------
\* C25: the actual-start, actual-end and actual-duration fields of an allocation
\* are set exactly once: under any interleaving of the sync, recall and release
\* jobs an allocation whose actual_end_time is set is never closed or modified
\* again, and no job frees a spot on behalf of an allocation that was already
\* closed
C25_ClosedOnce ==
    [][/\ \A i \in DOMAIN allocations :
             allocations[i].actual_end_time # NULL => allocations'[i] = allocations[i]
       /\ \A s \in DOMAIN spots :
             spots[s].status = "occupied" /\ spots'[s].status = "available"
                => \E i \in DOMAIN allocations :
                      /\ allocations[i].spot_id = s
                      /\ allocations[i].actual_end_time = NULL
                      /\ allocations'[i].actual_end_time # NULL]_vars

\* C26: a preemptive transfer or a recall is atomic: in every observable state,
\* also after a storage failure in the middle of the operation, the moved
\* flight's old allocation is closed and its old spot freed if and only if its
\* new allocation exists and its new spot is occupied
C26_MoveIsAtomic ==
    [][last'.op = "recall_from_military" =>
          \A old \in ActiveOfFlight(Store, last'.flight) :
              (/\ allocations'[old].actual_end_time # NULL
               /\ spots'[allocations[old].spot_id].status = "available")
                 <=> (\E new \in DOMAIN allocations' \ DOMAIN allocations :
                         /\ allocations'[new].flight_icao24 = last'.flight
                         /\ allocations'[new].actual_end_time = NULL
                         /\ spots'[allocations'[new].spot_id].status = "occupied")]_vars

Fits(capacity, required) ==
    \/ required = "small"
    \/ required = "medium" /\ capacity \in {"medium", "large"}
    \/ required = "large" /\ capacity = "large"

\* the available spots of a pool that take an aircraft of the required size
Candidates(pool, required) ==
    {c \in DOMAIN spots :
        /\ spots[c].spot_type = pool
        /\ spots[c].status = "available"
        /\ Fits(spots[c].aircraft_size_capacity, required)}

\* C28: the spot allocate_spot assigns is the first of the available spots of
\* the requested pool whose size capacity is at least the required size under
\* small < medium < large, sorted by has_jetway descending and then
\* distance_to_terminal ascending; a smaller spot or a spot that is not available
\* is never assigned
C28_FirstFittingSpotAssigned ==
    [][(last'.op = "process_single_flight" /\ last'.allocate.success) =>
          LET s == last'.allocate.spot_id
              pool == IF last'.allocate.overflow_to_military THEN "military" ELSE "civil"
          IN /\ s \in Candidates(pool, AircraftSize)
             /\ \A c \in Candidates(pool, AircraftSize) \ {s} :
                   \/ spots[s].has_jetway /\ ~spots[c].has_jetway
                   \/ /\ spots[s].has_jetway = spots[c].has_jetway
                      /\ spots[s].distance_to_terminal <= spots[c].distance_to_terminal]_vars

\* a spot without jetway is assigned although a nearer spot of the pool with a
\* jetway is available, because that one is too small
C28_Witness ==
    /\ last.op = "process_single_flight"
    /\ last.allocate.success
    /\ ~spots[last.allocate.spot_id].has_jetway
    /\ \E c \in DOMAIN spots :
          /\ spots[c].spot_type = spots[last.allocate.spot_id].spot_type
          /\ spots[c].status = "available"
          /\ spots[c].has_jetway
          /\ spots[c].distance_to_terminal < spots[last.allocate.spot_id].distance_to_terminal
          /\ spots[c].aircraft_size_capacity = "small"

\* ---------------------------------------------------------------------------
\* Batches
\* ---------------------------------------------------------------------------
\* C29: within one cycle at most the batch width (10) of per-flight pipelines
\* are in progress at any time, and the successful and failed counts of a batch
\* are aggregated only after all pipelines of that batch have completed
C29_BoundedBatches ==
    [][/\ Cardinality(batching'.running) <= BatchSize
       /\ (/\ batching.pc = "gather"
           /\ <<batching'.successful, batching'.failed>>
                  # <<batching.successful, batching.failed>>)
             => /\ batching.running = {}
                /\ \A k \in DOMAIN batching.results : batching.results[k] \in BOOLEAN
                /\ batching'.successful
                       = batching.successful
                           + Cardinality({k \in DOMAIN batching.results : batching.results[k] = TRUE})
                /\ batching'.failed
                       = batching.failed
                           + Cardinality({k \in DOMAIN batching.results : batching.results[k] = FALSE})]_vars

\* the second batch of a list of eleven is in progress after the ten pipelines of
\* the first, of which some succeeded and some failed, were counted
C29_Witness ==
    /\ batching.pc = "gather"
    /\ batching.i = BatchSize + 1
    /\ batching.running # {}
    /\ batching.successful + batching.failed = BatchSize
    /\ batching.successful > 0
    /\ batching.failed > 0

\* ---------------------------------------------------------------------------
\* Recall job
\* ---------------------------------------------------------------------------
\* the flights with an active allocation that is an overflow to the military pool
Overflowed(rows) ==
    {rows[i].flight_icao24 :
        i \in {j \in DOMAIN rows : rows[j].actual_end_time = NULL /\ rows[j].overflow_to_military}}

\* C30: after a run of the recall job that meets no storage error, every flight
\* that still has an active allocation with overflow_to_military is one for which
\* no available civil spot of fitting size exists; every other flight that was
\* overflowed at the start of the run holds exactly one active allocation, on a
\* civil spot
C30_RecallJobRecallsAll ==
    [][last'.op = "civil_recall_job" =>
          /\ Overflowed(allocations') # {}
                => ~\E c \in DOMAIN spots' :
                       /\ spots'[c].spot_type = "civil"
                       /\ spots'[c].status = "available"
                       /\ Fits(spots'[c].aircraft_size_capacity, AircraftSize)
          /\ \A f \in Overflowed(allocations) \ Overflowed(allocations') :
                \E i \in DOMAIN allocations' :
                    /\ allocations'[i].flight_icao24 = f
                    /\ allocations'[i].actual_end_time = NULL
                    /\ spots'[allocations'[i].spot_id].spot_type = "civil"
                    /\ \A j \in DOMAIN allocations' :
                          (allocations'[j].flight_icao24 = f
                              /\ allocations'[j].actual_end_time = NULL) => j = i]_vars

\* ---------------------------------------------------------------------------
\* Release job: what a run leaves behind
\* ---------------------------------------------------------------------------
\* C31: after a run of the release job no allocation with a null actual_end_time
\* belongs to a flight whose status is completed, and every spot such an
\* allocation held is available; a turn of the loop that fails does not keep the
\* other allocations of the same run from being released
C31_ReleaseRunLeavesNoneBehind ==
    [][last'.op = "departure_monitoring_job"
          => /\ \A i \in DOMAIN allocations' :
                   allocations'[i].actual_end_time = NULL
                       => flights'[allocations'[i].flight_icao24].status # "completed"
             /\ \A i \in Releasable(Store) :
                   /\ allocations'[i].actual_end_time # NULL
                   /\ spots'[allocations[i].spot_id].status = "available"]_vars

\* a run that released two allocations although each turn of its loop failed
\* (released_count stayed 0)
C31_Witness ==
    /\ last.op = "departure_monitoring_job"
    /\ last.count = 0
    /\ \E i, j \in DOMAIN allocations :
          /\ i # j
          /\ allocations[i].actual_end_time = now
          /\ allocations[j].actual_end_time = now
          /\ flights[allocations[i].flight_icao24].status = "completed"
          /\ flights[allocations[j].flight_icao24].status = "completed"
          /\ spots[allocations[i].spot_id].status = "available"
          /\ spots[allocations[j].spot_id].status = "available"

\* ---------------------------------------------------------------------------
\* Retry with backoff
\* ---------------------------------------------------------------------------
\* C32: a call wrapped by retry_with_backoff is attempted at most max_retries + 1
\* times, returns the result of the first successful attempt without a further
\* attempt, re-raises the last error once the attempts are exhausted, and sleeps
\* between attempts for delays that are multiplied by exponential_base and never
\* exceed max_delay; every external call in progress ends with a result or an error
C32_RetryIsBoundedAndEnds ==
    /\ [](retry.call = "wrapper" =>
            /\ Len(retry.outcomes) <= retry.max_retries + 1
            /\ \A k \in DOMAIN retry.outcomes :
                  retry.outcomes[k] = "ok" => (k = Len(retry.outcomes) /\ retry.pc = "done")
            /\ (retry.pc = "done" /\ retry.ret # NULL) =>
                  /\ retry.outcomes[Len(retry.outcomes)] = "ok"
                  /\ retry.ret = Len(retry.outcomes) - 1
                  /\ retry.raised = NULL
            /\ (retry.pc = "done" /\ retry.ret = NULL) =>
                  /\ Len(retry.outcomes) = retry.max_retries + 1
                  /\ retry.raised = retry.max_retries
            /\ Len(retry.waits) = retry.attempt
            /\ \A k \in DOMAIN retry.waits :
                  /\ retry.waits[k] <= retry.max_delay
                  /\ k > 1 =>
                       \/ retry.waits[k] = retry.waits[k - 1] * retry.exponential_base
                       \/ /\ retry.waits[k] = retry.max_delay
                          /\ retry.waits[k - 1] * retry.exponential_base > retry.max_delay)
    /\ [](retry.call = "predict" => Len(retry.outcomes) <= retry.max_retries + 1)
    /\ (retry.pc \in {"attempt", "sleep"}) ~> (retry.pc = "done")

\* a decorated call that failed max_retries + 1 times and re-raised, after sleeps
\* of which the last was cut to max_delay
C32_Witness ==
    /\ retry.call = "wrapper"
    /\ retry.pc = "done"
    /\ retry.raised = retry.max_retries
    /\ Len(retry.waits) = retry.max_retries
    /\ retry.waits[Len(retry.waits)] = retry.max_delay
    /\ retry.waits[Len(retry.waits) - 1] * retry.exponential_base > retry.max_delay

\* ---------------------------------------------------------------------------
\* Fallback to the secondary flight source
\* ---------------------------------------------------------------------------
\* C33: a sync cycle calls the secondary flight source only after the primary
\* fetch has failed with an error; when the primary returns an empty list the
\* cycle returns zero flights attributed to the primary source and makes no call
\* to the secondary
C33_SecondaryOnlyAfterPrimaryError ==
    [][\A secondary_ok \in BOOLEAN, relevant \in [FlightIds -> BOOLEAN] :
          /\ sync'.aviationstack_called
                => \A n \in FetchLengths : ~SyncJob(TRUE, secondary_ok, n, relevant)
          /\ SyncJob(TRUE, secondary_ok, 0, relevant)
                => /\ sync'.stats = Stats("OpenSky", "none", 0, 0, 0)
                   /\ sync'.fetched = <<>>
                   /\ last'.raised = "none"]_vars

\* a cycle whose primary fetch returned an empty list, after a cycle that had
\* called the secondary
C33_Witness ==
    /\ last.op = "sync_job"
    /\ sync.stats = Stats("OpenSky", "none", 0, 0, 0)
    /\ ~sync.aviationstack_called
    /\ sync.aviationstack_called_at # NULL

\* ---------------------------------------------------------------------------
\* Preemptive transfer: what it leaves alone
\* ---------------------------------------------------------------------------
\* C34: when no military spot of fitting size is available, a call of allocate
\* closes no existing allocation, frees no spot and moves no other flight: the
\* preemptive transfer is given up before any write; and no call of allocate
\* closes the allocations of more than one flight
C34_NoTransferWithoutMilitarySpot ==
    [][\A f \in FlightIds :
          AllocateCalled(last', f)
             => /\ get_available_by_type(Store, "military", AircraftSize) = <<>>
                   => /\ \A i \in DOMAIN allocations : allocations'[i] = allocations[i]
                      /\ \A s \in DOMAIN spots :
                            spots[s].status = "occupied" => spots'[s].status = "occupied"
                      /\ \A g \in FlightIds \ {f} :
                            flights'[g].parking_spot_id = flights[g].parking_spot_id
                /\ Cardinality({allocations[i].flight_icao24 :
                                   i \in {j \in DOMAIN allocations :
                                             /\ IsActive(allocations[j])
                                             /\ ~IsActive(allocations'[j])}}) <= 1]_vars

\* allocate went past its civil step and its transfer step to the saturation
\* alert while another flight held an active civil allocation and no military
\* spot of fitting size was available
C34_Witness ==
    /\ \E f \in FlightIds :
          /\ AllocateCalled(last, f)
          /\ ActiveOfFlight(Store, f) = {}
    /\ last.allocate.raised = "AttributeError"
    /\ ActiveCivil(Store) # {}
    /\ get_available_by_type(Store, "military", AircraftSize) = <<>>

\* ---------------------------------------------------------------------------
\* Failure of allocate
\* ---------------------------------------------------------------------------
\* allocate_spot ended in its saturation branch (lines 222-237): it returned
\* success = false, or its saturation alert raised
EndedInSaturation(outcome) ==
    \/ outcome.raised = "none" /\ ~outcome.success
    \/ outcome.raised = "AttributeError"

C36_EveryFlightCountedOnce ==
    (last.op = "sync_job" /\ sync.fetched # <<>>)
        => /\ sync.stats.total_flights = Len(sync.fetched)
           /\ sync.stats.successful + sync.stats.failed = sync.stats.total_flights
           /\ sync.stats.successful
                  = Cardinality({k \in DOMAIN sync.results : sync.results[k].ret})
           /\ sync.stats.failed
                  = Cardinality({k \in DOMAIN sync.results : ~sync.results[k].ret})

\* a cycle of two batches whose result counts successes and failures
C36_Witness ==
    /\ last.op = "sync_job"
    /\ sync.stats.total_flights = BatchSize + 1
    /\ sync.stats.successful > 0
    /\ sync.stats.failed > 0
    /\ \E k \in DOMAIN sync.results : k > BatchSize /\ ~sync.results[k].ret

\* ---------------------------------------------------------------------------
\* Overflow flag
\* ---------------------------------------------------------------------------
\* C37: in every reachable state an active allocation has overflow_to_military
\* = true if and only if the spot it references is a military spot
C37_OverflowFlagIffMilitarySpot ==
    \A i \in DOMAIN allocations :
        IsActive(allocations[i])
            => (allocations[i].overflow_to_military
                    <=> spots[allocations[i].spot_id].spot_type = "military")

\* a flight recalled to a civil spot: the allocation it leaves on the military
\* spot is flagged and closed, the one it gets on the civil spot is not flagged
C37_Witness ==
    /\ last.op = "recall_from_military"
    /\ last.ret
    /\ \E i, j \in DOMAIN allocations :
          /\ IsActive(allocations[i])
          /\ ~IsActive(allocations[j])
          /\ allocations[i].flight_icao24 = last.flight
          /\ allocations[j].flight_icao24 = last.flight
          /\ ~allocations[i].overflow_to_military
          /\ spots[allocations[i].spot_id].spot_type = "civil"
          /\ allocations[j].overflow_to_military
          /\ spots[allocations[j].spot_id].spot_type = "military"

====
